---- MODULE Spec2Model ----
(***************************************************************************)
(* Model of the oc-mirror catalog filter (package v1alpha1):               *)
(* mirrorFilter.FilterCatalog and its helpers, over a small heap that      *)
(* keeps Go's slice aliasing (a slice header is an array id and a length,  *)
(* copying a struct copies the header, not the array).                     *)
(***************************************************************************)
EXTENDS Integers, Sequences, FiniteSets, TLC

(***************************************************************************)
(* Bounds of the model.                                                    *)
(***************************************************************************)
MaxEntries == 3    \* entries of the channel whose upgrade graph is enumerated
ConcEntries == 2   \* the same, for the catalogs two concurrent calls share

(***************************************************************************)
(* Names.  strings.Compare is modelled by the position of a name in        *)
(* NameOrder, which lists every name of the model in lexicographic order.  *)
(***************************************************************************)
NameOrder == << "", "b0", "b1", "b2", "b3", "b4", "b5", "c1", "c2", "c3", "p1", "p2" >>
BundleNames == << "b1", "b2", "b3", "b4", "b5" >>

Rank(s) == CHOOSE i \in 1..Len(NameOrder) : NameOrder[i] = s

\* strings.Compare(a, b): -1, 0 or 1
StrCompare(a, b) == IF Rank(a) < Rank(b) THEN -1 ELSE IF Rank(a) > Rank(b) THEN 1 ELSE 0

SchemaPackage == "olm.package"
SchemaChannel == "olm.channel"
SchemaBundle == "olm.bundle"

(***************************************************************************)
(* Sequence helpers.                                                       *)
(***************************************************************************)
Range(s) == { s[i] : i \in 1..Len(s) }

RECURSIVE Tabulate(_, _)
\* the sequence << F(1), ..., F(n) >>
Tabulate(F(_), n) == IF n = 0 THEN << >> ELSE Append(Tabulate(F, n - 1), F(n))

RECURSIVE SelectSeqBy(_, _)
\* the elements of s whose index is in the set idx, in order
SelectSeqBy(s, idx) ==
    IF s = << >> THEN << >>
    ELSE LET n == Len(s)
             front == SelectSeqBy(SubSeq(s, 1, n - 1), idx)
         IN IF n \in idx THEN Append(front, s[n]) ELSE front

(***************************************************************************)
(* Zero values of the Go structs.                                          *)
(***************************************************************************)
ZeroEntry == [Name |-> "", Replaces |-> "", Skips |-> {}]
ZeroDepEntry == [Schema |-> "", Name |-> ""]
NilHdr == [arr |-> 0, len |-> 0]
ZeroChannel == [Name |-> "", Package |-> "", Entries |-> NilHdr]
ZeroPkgCfg == [Name |-> "", DefaultChannel |-> "", VersionRange |-> << >>,
               Channels |-> << >>, SelectedBundles |-> << >>]
ZeroChCfg == [Name |-> "", VersionRange |-> << >>]

(***************************************************************************)
(* The heap.  mem.cat holds the DeclarativeConfig structs, mem.ch the      *)
(* backing arrays of []Channel, mem.en those of []ChannelEntry, mem.dp     *)
(* those of []Deprecation and mem.de those of []DeprecationEntry.  An id   *)
(* is an index into the respective sequence; id 0 is nil.  Packages,       *)
(* Bundles and Others are never written through a shared array, so they    *)
(* are kept as values inside the struct.                                   *)
(***************************************************************************)
EmptyMem == [cat |-> << >>, ch |-> << >>, en |-> << >>, dp |-> << >>, de |-> << >>]

\* the elements a slice header denotes
ReadCh(m, h) == IF h.arr = 0 THEN << >> ELSE SubSeq(m.ch[h.arr], 1, h.len)
ReadEn(m, h) == IF h.arr = 0 THEN << >> ELSE SubSeq(m.en[h.arr], 1, h.len)
ReadDp(m, h) == IF h.arr = 0 THEN << >> ELSE SubSeq(m.dp[h.arr], 1, h.len)
ReadDe(m, h) == IF h.arr = 0 THEN << >> ELSE SubSeq(m.de[h.arr], 1, h.len)

\* a catalog value (nested sequences) placed on a fresh heap as struct 1,
\* every channel and every deprecation with a backing array of its own
Load(v) ==
    LET nc == Len(v.Channels)
        nd == Len(v.Deprecations)
        chan(j) == [Name |-> v.Channels[j].Name, Package |-> v.Channels[j].Package,
                    Entries |-> [arr |-> j, len |-> Len(v.Channels[j].Entries)]]
        dep(j) == [Package |-> v.Deprecations[j].Package,
                   Entries |-> [arr |-> j, len |-> Len(v.Deprecations[j].Entries)]]
        chans == Tabulate(chan, nc)
        deps == Tabulate(dep, nd)
    IN [cat |-> << [Packages |-> v.Packages,
                    Channels |-> IF nc = 0 THEN NilHdr ELSE [arr |-> 1, len |-> nc],
                    Bundles |-> v.Bundles,
                    Deprecations |-> IF nd = 0 THEN NilHdr ELSE [arr |-> 1, len |-> nd],
                    Others |-> v.Others] >>,
        ch |-> IF nc = 0 THEN << >> ELSE << chans >>,
        en |-> Tabulate(LAMBDA j : v.Channels[j].Entries, nc),
        dp |-> IF nd = 0 THEN << >> ELSE << deps >>,
        de |-> Tabulate(LAMBDA j : v.Deprecations[j].Entries, nd)]

\* what a holder of the pointer id reads: the catalog as a value
View(m, id) ==
    LET c == m.cat[id]
        chs == ReadCh(m, c.Channels)
        dps == ReadDp(m, c.Deprecations)
    IN [Packages |-> c.Packages,
        Channels |-> Tabulate(LAMBDA j : [Name |-> chs[j].Name, Package |-> chs[j].Package,
                                          Entries |-> ReadEn(m, chs[j].Entries)], Len(chs)),
        Bundles |-> c.Bundles,
        Deprecations |-> Tabulate(LAMBDA j : [Package |-> dps[j].Package,
                                              Entries |-> ReadDe(m, dps[j].Entries)], Len(dps)),
        Others |-> c.Others]

(***************************************************************************)
(* slices.DeleteFunc(s, del) on the array a behind a header of length n,   *)
(* keep being the indices of the elements del rejects: the kept elements   *)
(* move to the front, the obsolete tail s[len(kept):n] is zeroed (Go 1.22  *)
(* and later), the array beyond n is untouched.  The new length is         *)
(* Cardinality(keep).                                                      *)
(***************************************************************************)
DeleteFunc(a, n, keep, zero) ==
    LET kept == SelectSeqBy(SubSeq(a, 1, n), keep)
        k == Len(kept)
    IN Tabulate(LAMBDA i : IF i <= k THEN kept[i] ELSE IF i <= n THEN zero ELSE a[i], Len(a))

(***************************************************************************)
(* NewMirrorFilter: the configuration indexed by package and channel name. *)
(* A version range is << >> when unset, <<lo, hi>> for the constraint      *)
(* ">=lo <=hi", and <<0>> for a string that is no semver constraint.       *)
(***************************************************************************)
LastIndexOf(s, P(_)) ==
    LET hits == { i \in 1..Len(s) : P(s[i]) }
    IN IF hits = {} THEN 0 ELSE CHOOSE i \in hits : \A j \in hits : j <= i

NewMirrorFilter(config, full) ==
    LET names == { config.Packages[i].Name : i \in 1..Len(config.Packages) }
        lastPkg(n) == config.Packages[LastIndexOf(config.Packages, LAMBDA p : p.Name = n)]
        \* the channel filters of every package filter named n, later ones winning
        allCh(n) == UNION { { <<i, j>> : j \in 1..Len(config.Packages[i].Channels) } :
                            i \in { k \in 1..Len(config.Packages) : config.Packages[k].Name = n } }
        chNames(n) == { config.Packages[ij[1]].Channels[ij[2]].Name : ij \in allCh(n) }
        lastCh(n, c) ==
            LET hits == { ij \in allCh(n) : config.Packages[ij[1]].Channels[ij[2]].Name = c }
                top == CHOOSE ij \in hits : \A o \in hits :
                          o[1] < ij[1] \/ (o[1] = ij[1] /\ o[2] <= ij[2])
            IN config.Packages[top[1]].Channels[top[2]]
    IN [pkgConfigs |-> [n \in names |-> lastPkg(n)],
        chConfigs |-> [n \in names |-> [c \in chNames(n) |-> lastCh(n, c)]],
        opts |-> [Full |-> full]]

\* f.pkgConfigs[name]: the zero Package for a missing key
PkgConfigOf(f, name) ==
    IF name \in DOMAIN f.pkgConfigs THEN f.pkgConfigs[name] ELSE ZeroPkgCfg

\* a lookup that never finds the channel filter
ChConfigOf_Missing(f, pkg, name) == ZeroChCfg

\* f.chConfigs[pkg][name]: the zero Channel for a missing key
ChConfigOf(f, pkg, name) ==
    IF pkg \in DOMAIN f.chConfigs /\ name \in DOMAIN f.chConfigs[pkg]
    THEN f.chConfigs[pkg][name] ELSE ZeroChCfg

\* mmsemver.NewConstraint: TRUE when the range parses
ConstraintParses(r) == Len(r) = 2

\* a check that forgets the lower bound of the range
ConstraintCheck_NoLower(r, v) == v <= r[2]

\* Constraints.Check(v)
ConstraintCheck(r, v) == r[1] <= v /\ v <= r[2]

(***************************************************************************)
(* Errors.  msg is the message of the outermost fmt.Errorf, inner the      *)
(* wrapped message (%v), arg the name the message quotes.                  *)
(***************************************************************************)
NoErr == [msg |-> "", inner |-> "", arg |-> ""]
Err(msg, inner, arg) == [msg |-> msg, inner |-> inner, arg |-> arg]

(***************************************************************************)
(* indexFromDeclCfg.  The index is a copy taken in one pass: the channel   *)
(* structs (headers included), the entries each channel had at that        *)
(* moment, and the bundles.  The maps of operatorIndex are lookups on it.  *)
(***************************************************************************)
\* getBundleVersion: a bundle without olm.package property has Version 0, one
\* whose version is no strict semver a negative Version
getBundleVersion(b) ==
    IF b.Version = 0 THEN Err("has no package property", "", b.Name)
    ELSE IF b.Version < 0 THEN Err("Invalid Semantic Version", "", b.Name)
    ELSE NoErr

indexFromDeclCfg(m, id) ==
    LET c == m.cat[id]
        chs == ReadCh(m, c.Channels)
        bad == { i \in 1..Len(c.Bundles) : getBundleVersion(c.Bundles[i]) # NoErr }
        first == CHOOSE i \in bad : \A j \in bad : i <= j
    IN [err |-> IF bad = {} THEN NoErr ELSE getBundleVersion(c.Bundles[first]),
        index |-> IF bad # {} THEN [chans |-> << >>, entries |-> << >>, bundles |-> << >>]
                  ELSE [chans |-> chs,
                        entries |-> Tabulate(LAMBDA j : ReadEn(m, chs[j].Entries), Len(chs)),
                        bundles |-> c.Bundles]]

\* index.Channels[pkg]
IndexChannels(index, pkg) == SelectSeq(index.chans, LAMBDA c : c.Package = pkg)

\* index.ChannelNames[pkg]; a package without channels has no key (a nil set)
IndexChannelNames(index, pkg) == { c.Name : c \in Range(IndexChannels(index, pkg)) }

\* a lookup that gives an entry of that name without what it replaces and skips
IndexChannelEntry_NameOnly(index, pkg, ch, name) == [ZeroEntry EXCEPT !.Name = name]

\* index.ChannelEntries[pkg][ch][name]: the last entry of that name, or the zero entry
IndexChannelEntry(index, pkg, ch, name) ==
    LET hits == { <<j, k>> \in UNION { { <<j, k>> : k \in 1..Len(index.entries[j]) } :
                                       j \in 1..Len(index.chans) } :
                    /\ index.chans[j].Package = pkg
                    /\ index.chans[j].Name = ch
                    /\ index.entries[j][k].Name = name }
        top == CHOOSE jk \in hits : \A o \in hits :
                  o[1] < jk[1] \/ (o[1] = jk[1] /\ o[2] <= jk[2])
    IN IF hits = {} THEN ZeroEntry ELSE index.entries[top[1]][top[2]]

\* the keys of index.BundlesByPkgAndName[pkg]
IndexBundleNames(index, pkg) ==
    { b.Name : b \in { x \in Range(index.bundles) : x.Package = pkg } }

\* index.BundlesByPkgAndName[pkg][name]: the first bundle of that name
IndexBundle(index, pkg, name) ==
    LET hits == { i \in 1..Len(index.bundles) :
                    index.bundles[i].Package = pkg /\ index.bundles[i].Name = name }
    IN index.bundles[CHOOSE i \in hits : \A j \in hits : i <= j]

\* index.BundleVersionsByPkgAndName[pkg]: name -> version, the last bundle winning
IndexBundleVersions(index, pkg) ==
    [n \in IndexBundleNames(index, pkg) |->
        index.bundles[LastIndexOf(index.bundles,
                                  LAMBDA b : b.Package = pkg /\ b.Name = n)].Version]

(***************************************************************************)
(* The channel model (newChannel, channel.filterByVersionRange).           *)
(***************************************************************************)
\* the entry a node of the graph carries: nodes are keyed by name
EntryNamed(entries, name) ==
    entries[LastIndexOf(entries, LAMBDA e : e.Name = name)]

EntryNames(entries) == { e.Name : e \in Range(entries) }

\* the names some entry replaces or skips
EdgeTargets(entries) ==
    { e.Replaces : e \in { x \in Range(entries) : x.Replaces # "" } }
        \cup UNION { e.Skips : e \in Range(entries) }

\* the entry nodes without in-edge
ChannelHeads(entries) == EntryNames(entries) \ EdgeTargets(entries)

\* newChannel: the graph of a channel and its head, or the error
newChannel(entries) ==
    LET heads == ChannelHeads(entries)
    IN IF heads = {} THEN [err |-> Err("no channel heads found", "", ""), head |-> ""]
       ELSE IF Cardinality(heads) > 1
            THEN [err |-> Err("multiple channel heads", "", ""), head |-> ""]
            ELSE [err |-> NoErr, head |-> CHOOSE h \in heads : TRUE]

RECURSIVE ReplacesChain(_, _, _)
\* the replaces chain from the entry node cur on: it ends at a node that replaces
\* nothing or a phantom, or comes back to a node already on the chain
ReplacesChain(entries, cur, seen) ==
    LET next == EntryNamed(entries, cur).Replaces
    IN IF next = "" \/ next \notin EntryNames(entries) \/ next \in seen \cup {cur}
       THEN << cur >>
       ELSE << cur >> \o ReplacesChain(entries, next, seen \cup {cur})

\* filterByVersionRange: the names to retain, {} for an empty channel
filterByVersionRange(entries, head, range, versions) ==
    LET names == EntryNames(entries)
        \* 2. the entries whose bundle version satisfies the constraint
        inRange == { n \in names : n \in DOMAIN versions /\ ConstraintCheck(range, versions[n]) }
        \* 1. the head is always retained
        wanted == {head} \cup inRange
        \* 3. the chain nodes down to the lowest wanted one
        chain == ReplacesChain(entries, head, {})
        low == CHOOSE i \in 1..Len(chain) :
                  /\ chain[i] \in wanted
                  /\ \A j \in 1..Len(chain) : chain[j] \in wanted => j <= i
        keep == wanted \cup { chain[i] : i \in 1..low }
        \* 4. the skipped names that are phantoms
        phantoms == UNION { EntryNamed(entries, n).Skips : n \in keep } \ names
    IN \* 5. nothing but the forced head: the channel is empty
       IF inRange = {} THEN {} ELSE keep \cup phantoms

(***************************************************************************)
(* One FilterCatalog call.  Its locals: pc (where the call stands), f (the *)
(* mirrorFilter), src (the pointer fbc), dst (the pointer filteredFBC),    *)
(* index (catalogIndex), keepKeys and keepSet (the keys of the map         *)
(* keepBundles and its (package, name) members), rng (the slice the        *)
(* channel loop ranges over) with ci (its position), and what the call     *)
(* returns: out (a pointer, 0 for nil) and err.                            *)
(***************************************************************************)
EmptyIndex == [chans |-> << >>, entries |-> << >>, bundles |-> << >>]

NewCall(f, src) ==
    [pc |-> "start", f |-> f, src |-> src, dst |-> 0, index |-> EmptyIndex,
     keepKeys |-> {}, keepSet |-> {}, rng |-> NilHdr, ci |-> 1, out |-> 0, err |-> NoErr]

Return(l, out, err) == [l EXCEPT !.pc = "done", !.out = out, !.err = err]

\* filterByPackageAndChannels keeping every channel of a configured package, listed
\* by its package filter or not
filterByPackageAndChannels_AllChannels(m, f, src) ==
    LET c == m.cat[src]
        cfgd(n) == n \in DOMAIN f.chConfigs
        keepCh(ch) == cfgd(ch.Package)
        keepDp(d) == cfgd(d.Package)
        keepPk(pk) == cfgd(pk.Name)
        keepBd(b) == cfgd(b.Package)
        keepOt(o) == o.Package = "" \/ cfgd(o.Package)
        chs == SelectSeq(ReadCh(m, c.Channels), keepCh)
        dps == SelectSeq(ReadDp(m, c.Deprecations), keepDp)
        struct == [Packages |-> SelectSeq(c.Packages, keepPk),
                   Channels |-> IF chs = << >> THEN NilHdr
                                ELSE [arr |-> Len(m.ch) + 1, len |-> Len(chs)],
                   Bundles |-> SelectSeq(c.Bundles, keepBd),
                   Deprecations |-> IF dps = << >> THEN NilHdr
                                    ELSE [arr |-> Len(m.dp) + 1, len |-> Len(dps)],
                   Others |-> SelectSeq(c.Others, keepOt)]
    IN [m |-> [m EXCEPT !.cat = Append(@, struct),
                        !.ch = IF chs = << >> THEN @ ELSE Append(@, chs),
                        !.dp = IF dps = << >> THEN @ ELSE Append(@, dps)],
        dst |-> Len(m.cat) + 1]

\* filterByPackageAndChannels: a new struct with the packages, channels, bundles,
\* deprecations and others of the configured packages; the channel and deprecation
\* structs are copied, so their Entries still point into the arrays of fbc
filterByPackageAndChannels(m, f, src) ==
    LET c == m.cat[src]
        cfgd(n) == n \in DOMAIN f.chConfigs
        keepCh(ch) == /\ cfgd(ch.Package)
                      /\ \/ DOMAIN f.chConfigs[ch.Package] = {}
                         \/ ch.Name \in DOMAIN f.chConfigs[ch.Package]
        keepDp(d) == cfgd(d.Package)
        keepPk(pk) == cfgd(pk.Name)
        keepBd(b) == cfgd(b.Package)
        keepOt(o) == o.Package = "" \/ cfgd(o.Package)
        chs == SelectSeq(ReadCh(m, c.Channels), keepCh)
        dps == SelectSeq(ReadDp(m, c.Deprecations), keepDp)
        struct == [Packages |-> SelectSeq(c.Packages, keepPk),
                   Channels |-> IF chs = << >> THEN NilHdr
                                ELSE [arr |-> Len(m.ch) + 1, len |-> Len(chs)],
                   Bundles |-> SelectSeq(c.Bundles, keepBd),
                   Deprecations |-> IF dps = << >> THEN NilHdr
                                    ELSE [arr |-> Len(m.dp) + 1, len |-> Len(dps)],
                   Others |-> SelectSeq(c.Others, keepOt)]
    IN [m |-> [m EXCEPT !.cat = Append(@, struct),
                        !.ch = IF chs = << >> THEN @ ELSE Append(@, chs),
                        !.dp = IF dps = << >> THEN @ ELSE Append(@, dps)],
        dst |-> Len(m.cat) + 1]

\* FilterCatalog looking for the conflict of Full with a version range or a bundle
\* selection before it looks at fbc
StepStart_ConflictsFirst(m, l) ==
    IF /\ l.f.opts.Full
       /\ \E n \in DOMAIN l.f.pkgConfigs :
             \/ l.f.pkgConfigs[n].VersionRange # << >>
             \/ l.f.pkgConfigs[n].SelectedBundles # << >>
    THEN [m |-> m, l |-> Return(l, 0, Err("Full: true cannot be mixed with versionRange", "", ""))]
    ELSE IF l.src = 0 THEN [m |-> m, l |-> Return(l, 0, NoErr)]
    ELSE
    LET pruned == IF DOMAIN l.f.pkgConfigs # {}
                  THEN filterByPackageAndChannels(m, l.f, l.src)
                  ELSE [m |-> m, dst |-> l.src]
        ix == indexFromDeclCfg(pruned.m, pruned.dst)
        l1 == [l EXCEPT !.dst = pruned.dst]
    IN [m |-> pruned.m,
        l |-> IF ix.err # NoErr THEN Return(l1, pruned.dst, ix.err)
              ELSE [l1 EXCEPT !.pc = "pkgs", !.index = ix.index]]

\* FilterCatalog up to the index build (a nil fbc is the pointer 0)
StepStart(m, l) ==
    IF l.src = 0 THEN [m |-> m, l |-> Return(l, 0, NoErr)]
    ELSE
    LET pruned == IF DOMAIN l.f.pkgConfigs # {}
                  THEN filterByPackageAndChannels(m, l.f, l.src)
                  ELSE [m |-> m, dst |-> l.src]
        ix == indexFromDeclCfg(pruned.m, pruned.dst)
        l1 == [l EXCEPT !.dst = pruned.dst]
    IN [m |-> pruned.m,
        l |-> IF ix.err # NoErr THEN Return(l1, pruned.dst, ix.err)
              ELSE [l1 EXCEPT !.pc = "pkgs", !.index = ix.index]]

\* setDefaultChannel without the checks that the default channel still exists
setDefaultChannel_Unchecked(pkg, pkgConfig, channels) ==
    [err |-> NoErr,
     DefaultChannel |-> IF pkgConfig.DefaultChannel # "" THEN pkgConfig.DefaultChannel
                        ELSE pkg.DefaultChannel]

\* setDefaultChannel: the error, or the default channel the package gets
setDefaultChannel(pkg, pkgConfig, channels) ==
    IF pkg.DefaultChannel = "" /\ pkgConfig.DefaultChannel = ""
    THEN [err |-> NoErr, DefaultChannel |-> pkg.DefaultChannel]
    ELSE IF pkgConfig.DefaultChannel # ""
    THEN IF pkgConfig.DefaultChannel \notin channels
         THEN [err |-> Err("specified default channel override does not exist in the filtered output",
                           "", pkgConfig.DefaultChannel),
               DefaultChannel |-> pkg.DefaultChannel]
         ELSE [err |-> NoErr, DefaultChannel |-> pkgConfig.DefaultChannel]
    ELSE IF pkg.DefaultChannel \notin channels
    THEN [err |-> Err("the default channel was filtered out, a new default channel must be configured for this package",
                      "", pkg.DefaultChannel),
          DefaultChannel |-> pkg.DefaultChannel]
    ELSE [err |-> NoErr, DefaultChannel |-> pkg.DefaultChannel]

\* keepPackageDefaultChannel deleting by channel name alone, whatever the package
keepPackageDefaultChannel_AnyPackage(m, dst, pkg, index) ==
    LET chansOf == IndexChannels(index, pkg.Name)
        hits == { i \in 1..Len(chansOf) : chansOf[i].Name = pkg.DefaultChannel }
        found == chansOf[CHOOSE i \in hits : \A j \in hits : i <= j]
        hdr == m.cat[dst].Channels
        a == m.ch[hdr.arr]
        keep == { i \in 1..hdr.len : a[i].Name = found.Name }
    IN IF hits = {}
       THEN [m |-> m, err |-> Err("default channel not found for package", "", pkg.DefaultChannel)]
       ELSE IF hdr.arr = 0
       THEN [m |-> [m EXCEPT !.ch = Append(@, << found >>),
                             !.cat[dst].Channels = [arr |-> Len(m.ch) + 1, len |-> 1]],
             err |-> NoErr]
       ELSE [m |-> [m EXCEPT !.ch[hdr.arr] = DeleteFunc(a, hdr.len, keep, ZeroChannel),
                             !.cat[dst].Channels = [arr |-> hdr.arr, len |-> Cardinality(keep)]],
             err |-> NoErr]

\* keepPackageDefaultChannel: of the channels of pkg only the default one stays in
\* fbc.Channels (slices.DeleteFunc on the array behind fbc.Channels).  The sort of
\* index.Channels[pkg.Name] only serves the binary search for the default channel.
keepPackageDefaultChannel(m, dst, pkg, index) ==
    LET chansOf == IndexChannels(index, pkg.Name)
        hits == { i \in 1..Len(chansOf) : chansOf[i].Name = pkg.DefaultChannel }
        found == chansOf[CHOOSE i \in hits : \A j \in hits : i <= j]
        hdr == m.cat[dst].Channels
        a == m.ch[hdr.arr]
        keep == { i \in 1..hdr.len : ~(a[i].Package = pkg.Name /\ a[i].Name # found.Name) }
    IN IF hits = {}
       THEN [m |-> m, err |-> Err("default channel not found for package", "", pkg.DefaultChannel)]
       ELSE IF hdr.arr = 0
       THEN [m |-> [m EXCEPT !.ch = Append(@, << found >>),
                             !.cat[dst].Channels = [arr |-> Len(m.ch) + 1, len |-> 1]],
             err |-> NoErr]
       ELSE [m |-> [m EXCEPT !.ch[hdr.arr] = DeleteFunc(a, hdr.len, keep, ZeroChannel),
                             !.cat[dst].Channels = [arr |-> hdr.arr, len |-> Cardinality(keep)]],
             err |-> NoErr]

RECURSIVE PkgLoop(_, _, _)
\* the loop over filteredFBC.Packages, from package i on
PkgLoop(m, l, i) ==
    LET pkgs == m.cat[l.dst].Packages
    IN IF i > Len(pkgs)
       THEN [m |-> m, l |-> [l EXCEPT !.pc = "chans", !.rng = m.cat[l.dst].Channels, !.ci = 1]]
       ELSE
       LET pkg == pkgs[i]
           exists == pkg.Name \in DOMAIN l.f.pkgConfigs
           pkgConfig == PkgConfigOf(l.f, pkg.Name)
           sd == setDefaultChannel(pkg, pkgConfig, IndexChannelNames(l.index, pkg.Name))
           m1 == IF exists
                 THEN [m EXCEPT !.cat[l.dst].Packages[i].DefaultChannel = sd.DefaultChannel]
                 ELSE m
           reduce == IF exists
                     THEN /\ Len(pkgConfig.Channels) = 0
                          /\ ~l.f.opts.Full
                          /\ Len(pkgConfig.SelectedBundles) = 0
                     ELSE ~l.f.opts.Full
           kd == keepPackageDefaultChannel(m1, l.dst, m1.cat[l.dst].Packages[i], l.index)
       IN IF exists /\ sd.err # NoErr
          THEN [m |-> m,
                l |-> Return(l, 0, Err("invalid default channel configuration for package",
                                       sd.err.msg, sd.err.arg))]
          ELSE IF reduce /\ kd.err # NoErr
          THEN [m |-> m1,
                l |-> Return(l, 0, Err("failure in filtering default channel for package",
                                       kd.err.msg, kd.err.arg))]
          ELSE PkgLoop(IF reduce THEN kd.m ELSE m1, l, i + 1)

StepPkgs(m, l) == PkgLoop(m, l, 1)

\* bundleNames
bundleNames(selected) == { selected[i].Name : i \in 1..Len(selected) }

\* the deletion with its test inverted: the entries whose name is in names go
DeleteEntries_Inverted(m, dst, ci, names) ==
    LET cur == m.cat[dst].Channels
        eh == m.ch[cur.arr][ci].Entries
        a == m.en[eh.arr]
        keep == { i \in 1..eh.len : a[i].Name \notin names }
    IN IF eh.arr = 0 THEN m
       ELSE [m EXCEPT !.en[eh.arr] = DeleteFunc(a, eh.len, keep, ZeroEntry),
                      !.ch[cur.arr][ci].Entries = [arr |-> eh.arr, len |-> Cardinality(keep)]]

\* filteredFBC.Channels[ci].Entries = slices.DeleteFunc(filteredFBC.Channels[ci].Entries, ...)
\* keeping the entries whose name is in names
DeleteEntries(m, dst, ci, names) ==
    LET cur == m.cat[dst].Channels
        eh == m.ch[cur.arr][ci].Entries
        a == m.en[eh.arr]
        keep == { i \in 1..eh.len : a[i].Name \in names }
    IN IF eh.arr = 0 THEN m
       ELSE [m EXCEPT !.en[eh.arr] = DeleteFunc(a, eh.len, keep, ZeroEntry),
                      !.ch[cur.arr][ci].Entries = [arr |-> eh.arr, len |-> Cardinality(keep)]]

\* filterChannelHead: the channel with a fresh one-entry slice, and its head
filterChannelHead(m, ch, index) ==
    LET nc == newChannel(ReadEn(m, ch.Entries))
    IN IF nc.err # NoErr THEN [err |-> nc.err, m |-> m, ch |-> ZeroChannel, head |-> ""]
       ELSE [err |-> NoErr,
             m |-> [m EXCEPT !.en = Append(@, << IndexChannelEntry(index, ch.Package, ch.Name, nc.head) >>)],
             ch |-> [ch EXCEPT !.Entries = [arr |-> Len(m.en) + 1, len |-> 1]],
             head |-> nc.head]

\* one iteration of the loop over filteredFBC.Channels (the slice was taken when the
\* loop began; an index beyond the slice filteredFBC.Channels is by now is a panic)
StepChan(m, l) ==
    IF l.ci > l.rng.len THEN [m |-> m, l |-> [l EXCEPT !.pc = "finish"]]
    ELSE
    LET ch == m.ch[l.rng.arr][l.ci]
        pkgConfig == PkgConfigOf(l.f, ch.Package)
        chRange == ChConfigOf(l.f, ch.Package, ch.Name).VersionRange
        versionRange == IF chRange = << >> /\ pkgConfig.VersionRange # << >>
                        THEN pkgConfig.VersionRange ELSE chRange
        selected == bundleNames(pkgConfig.SelectedBundles)
        cur == m.cat[l.dst].Channels
        inBounds == cur.arr # 0 /\ l.ci <= cur.len
        panic == Return(l, 0, Err("index out of range", "", ch.Name))
        next(l1) == [l1 EXCEPT !.ci = l.ci + 1]
        keys == l.keepKeys \cup {ch.Package}
        add(names) == l.keepSet \cup { << ch.Package, n >> : n \in names }
    IN IF l.f.opts.Full /\ versionRange # << >>
       THEN [m |-> m, l |-> Return(l, 0, Err("Full: true cannot be mixed with versionRange", "", ""))]
       ELSE IF l.f.opts.Full /\ selected # {}
       THEN [m |-> m, l |-> Return(l, 0, Err("Full: true cannot be mixed with filtering by bundle selection", "", ""))]
       ELSE IF selected # {} /\ versionRange # << >>
       THEN [m |-> m, l |-> Return(l, 0, Err("filtering by versionRange cannot be mixed with filtering by bundle selection", "", ""))]
       ELSE IF selected # {}
       THEN IF ~inBounds THEN [m |-> m, l |-> panic]
            ELSE LET m1 == DeleteEntries(m, l.dst, l.ci, selected)
                     nc == newChannel(ReadEn(m1, m1.ch[cur.arr][l.ci].Entries))
                     l1 == [l EXCEPT !.keepKeys = keys, !.keepSet = add(selected)]
                 IN IF nc.err # NoErr
                    THEN [m |-> m1,
                          l |-> Return(l1, 0, Err("filtering on the selected bundles leads to invalidating channel",
                                                  nc.err.msg, ch.Name))]
                    ELSE [m |-> m1, l |-> next(l1)]
       ELSE IF l.f.opts.Full
       THEN LET names == EntryNames(ReadEn(m, ch.Entries))
            IN [m |-> m,
                l |-> next(IF names = {} THEN l
                           ELSE [l EXCEPT !.keepKeys = keys, !.keepSet = add(names)])]
       ELSE IF versionRange # << >>
       THEN IF ~ConstraintParses(versionRange)
            THEN [m |-> m, l |-> Return(l, 0, Err("error parsing version range", "", ""))]
            ELSE
            LET nc == newChannel(ReadEn(m, ch.Entries))
                keepEntries == filterByVersionRange(ReadEn(m, ch.Entries), nc.head, versionRange,
                                                    IndexBundleVersions(l.index, ch.Package))
            IN IF nc.err # NoErr THEN [m |-> m, l |-> Return(l, 0, nc.err)]
               ELSE IF keepEntries = {}
               THEN [m |-> m,
                     l |-> Return(l, 0, Err("has version range that results in an empty channel", "", ch.Name))]
               ELSE IF ~inBounds THEN [m |-> m, l |-> panic]
               ELSE [m |-> DeleteEntries(m, l.dst, l.ci, keepEntries),
                     l |-> next([l EXCEPT !.keepKeys = keys, !.keepSet = add(keepEntries)])]
       ELSE LET fh == filterChannelHead(m, ch, l.index)
            IN IF fh.err # NoErr
               THEN [m |-> m,
                     l |-> Return(l, 0, Err("unable to filter head of channel", fh.err.msg, ch.Name))]
               ELSE IF ~inBounds THEN [m |-> fh.m, l |-> panic]
               ELSE [m |-> [fh.m EXCEPT !.ch[cur.arr][l.ci] = fh.ch],
                     l |-> next([l EXCEPT !.keepKeys = keys, !.keepSet = add({fh.head})])]

\* a comparison of bundles by name alone
compareBundles_ByName(a, b) == StrCompare(a.Name, b.Name)

\* compareBundles: by package, then by name
compareBundles(a, b) ==
    IF StrCompare(a.Package, b.Package) # 0 THEN StrCompare(a.Package, b.Package)
    ELSE StrCompare(a.Name, b.Name)

RECURSIVE SortBundles(_)
\* slices.SortFunc(bundles, compareBundles) on bundles of distinct (package, name)
SortBundles(bs) ==
    IF bs = {} THEN << >>
    ELSE LET least == CHOOSE b \in bs : \A o \in bs : compareBundles(b, o) <= 0
         IN << least >> \o SortBundles(bs \ {least})

RECURSIVE filterDeprecationsFrom(_, _, _, _, _, _)
\* filterDeprecations from the deprecation i of fbc.Deprecations on
filterDeprecationsFrom(m, dst, index, keepKeys, keepSet, i) ==
    LET hdr == m.cat[dst].Deprecations
    IN IF i > hdr.len THEN m
       ELSE
       LET d == m.dp[hdr.arr][i]
           a == m.de[d.Entries.arr]
           del(e) == IF e.Schema = SchemaBundle
                     THEN d.Package \in keepKeys /\ << d.Package, e.Name >> \notin keepSet
                     ELSE IF e.Schema = SchemaChannel
                     THEN /\ IndexChannelNames(index, d.Package) # {}
                          /\ e.Name \notin IndexChannelNames(index, d.Package)
                     ELSE FALSE
           keep == { k \in 1..d.Entries.len : ~del(a[k]) }
           m1 == IF d.Entries.arr = 0 THEN m
                 ELSE [m EXCEPT !.de[d.Entries.arr] = DeleteFunc(a, d.Entries.len, keep, ZeroDepEntry),
                                !.dp[hdr.arr][i].Entries = [arr |-> d.Entries.arr,
                                                            len |-> Cardinality(keep)]]
       IN filterDeprecationsFrom(m1, dst, index, keepKeys, keepSet, i + 1)

filterDeprecations(m, dst, index, keepKeys, keepSet) ==
    filterDeprecationsFrom(m, dst, index, keepKeys, keepSet, 1)

\* FilterCatalog after the channel loop: the bundles of keepBundles that the index
\* knows, sorted, then the deprecations
StepFinish(m, l) ==
    IF l.keepKeys = {} THEN [m |-> m, l |-> Return(l, l.dst, NoErr)]
    ELSE
    LET known == { pn \in l.keepSet : pn[2] \in IndexBundleNames(l.index, pn[1]) }
        bundles == SortBundles({ IndexBundle(l.index, pn[1], pn[2]) : pn \in known })
        m1 == [m EXCEPT !.cat[l.dst].Bundles = bundles]
    IN [m |-> filterDeprecations(m1, l.dst, l.index, l.keepKeys, l.keepSet),
        l |-> Return(l, l.dst, NoErr)]

\* the step a call at l.pc takes
Step(m, l) ==
    IF l.pc = "start" THEN StepStart(m, l)
    ELSE IF l.pc = "pkgs" THEN StepPkgs(m, l)
    ELSE IF l.pc = "chans" THEN StepChan(m, l)
    ELSE IF l.pc = "finish" THEN StepFinish(m, l)
    ELSE [m |-> m, l |-> l]

RECURSIVE RunFrom(_, _)
RunFrom(m, l) ==
    IF l.pc = "done" THEN [m |-> m, l |-> l]
    ELSE LET s == Step(m, l) IN RunFrom(s.m, s.l)

\* mirrorFilter.FilterCatalog(ctx, fbc), run to its return
FilterCatalogCall(m, f, src) == RunFrom(m, NewCall(f, src))

(***************************************************************************)
(* The catalogs and configurations the calls are given.  The bundle b<i>   *)
(* has version i.0.0, modelled as i; version 0 stands for a bundle without *)
(* olm.package property and -1 for a version that is no semver.            *)
(***************************************************************************)
Entry(n, r, s) == [Name |-> n, Replaces |-> r, Skips |-> s]
Bundle(p, n, v) == [Package |-> p, Name |-> n, Version |-> v]
Pkg(n, d) == [Name |-> n, DefaultChannel |-> d]
Chan(p, n, es) == [Name |-> n, Package |-> p, Entries |-> es]
DepEntry(s, n) == [Schema |-> s, Name |-> n]
Other(p) == [Schema |-> "other", Package |-> p]

\* b<i>, b0 for i = 0
BName(i) == IF i = 0 THEN "b0" ELSE BundleNames[i]

\* the entries b<i> may be in a channel of k entries: it replaces nothing, its
\* predecessor (the phantom b0 for b1) or its successor, and skips nothing or its
\* predecessor
EntryChoices(i, k) ==
    { Entry(BName(i), r, sk) :
        r \in {"", BName(i - 1)} \cup (IF i < k THEN {BName(i + 1)} ELSE {}),
        sk \in {{}, {BName(i - 1)}} }

RECURSIVE Graphs(_, _)
\* the entry lists b<i>, ..., b<k>: valid chains as well as cycles and several heads
Graphs(i, k) ==
    IF i > k THEN { << >> }
    ELSE { << e >> \o g : e \in EntryChoices(i, k), g \in Graphs(i + 1, k) }

\* the Bundle records of a one-channel catalog: all in order, all in reverse order
\* with a bundle b5 that no entry names, or all but the one of the last entry
BundleChoices(k) ==
    { Tabulate(LAMBDA i : Bundle("p1", BName(i), i), k),
      Tabulate(LAMBDA i : IF i = 1 THEN Bundle("p1", "b5", 5)
                          ELSE Bundle("p1", BName(k + 2 - i), k + 2 - i), k + 1),
      Tabulate(LAMBDA i : Bundle("p1", BName(i), i), k - 1) }

\* one package p1 with the channel c1 of k entries
OneChannelCatalogs(k) ==
    { [Packages |-> << Pkg("p1", "c1") >>,
       Channels |-> << Chan("p1", "c1", g) >>,
       Bundles |-> bs,
       Deprecations |-> << [Package |-> "p1",
                            Entries |-> << DepEntry(SchemaPackage, ""),
                                           DepEntry(SchemaChannel, "c1"),
                                           DepEntry(SchemaBundle, "b1") >>
                                        \o (IF k = 1 THEN << >>
                                            ELSE << DepEntry(SchemaBundle, BName(k)) >>)] >>,
       Others |-> << Other(""), Other("p1") >>] :
      g \in Graphs(1, k), bs \in BundleChoices(k) }

\* two packages: p1 with the channels c1 and c2, p2 with the channel c3
TwoPackageCatalogs ==
    { [Packages |-> << Pkg("p1", d), Pkg("p2", "c3") >>,
       Channels |-> << Chan("p1", "c1", << Entry("b1", "", {}), Entry("b2", "b1", {}) >>),
                       Chan("p1", "c2", es),
                       Chan("p2", "c3", << Entry("b1", "b0", {}) >>) >>,
       Bundles |-> bs,
       Deprecations |-> ds,
       Others |-> << Other(""), Other("p1"), Other("p2") >>] :
      d \in {"c1", "c2", ""},
      es \in { << Entry("b2", "", {}) >>,
               << Entry("b1", "", {}), Entry("b2", "b1", {}), Entry("b3", "b2", {"b1"}) >>,
               << >> },
      bs \in { << Bundle("p1", "b1", 1), Bundle("p1", "b2", 2), Bundle("p1", "b3", 3),
                  Bundle("p2", "b1", 1) >>,
               << Bundle("p2", "b1", 1), Bundle("p1", "b3", 3), Bundle("p1", "b1", 1),
                  Bundle("p1", "b2", 2) >>,
               << Bundle("p1", "b1", 1), Bundle("p1", "b2", 2), Bundle("p1", "b3", 0) >>,
               << Bundle("p1", "b1", 1), Bundle("p1", "b2", 2), Bundle("p1", "b3", -1) >> },
      ds \in { << >>,
               << [Package |-> "p1",
                   Entries |-> << DepEntry(SchemaPackage, ""), DepEntry(SchemaChannel, "c1"),
                                  DepEntry(SchemaChannel, "c2"), DepEntry(SchemaBundle, "b1"),
                                  DepEntry(SchemaBundle, "b2"), DepEntry(SchemaBundle, "b3") >>],
                  [Package |-> "p2",
                   Entries |-> << DepEntry(SchemaChannel, "c3"), DepEntry(SchemaBundle, "b1") >>] >> } }

\* a package filter with a name only, and the configuration with its Full option
PkgCfg(n) == [ZeroPkgCfg EXCEPT !.Name = n]
ChCfg(n, r) == [Name |-> n, VersionRange |-> r]
Config(pkgs, full) == [Packages |-> pkgs, Full |-> full]

RECURSIVE Selection(_)
\* the bundle selection naming the names of the set S
Selection(S) ==
    IF S = {} THEN << >>
    ELSE LET n == CHOOSE x \in S : \A y \in S : Rank(x) <= Rank(y)
         IN << [Name |-> n] >> \o Selection(S \ {n})

\* the version ranges ">=lo <=hi" over the versions 1..k
Ranges(k) == { r \in (1..k) \X (1..k) : r[1] <= r[2] }

\* the selections of one or two of b1..b<k>, or of one of them and b5
Selections(k) ==
    LET names == { BName(i) : i \in 1..k }
    IN { Selection({a, b}) : a \in names, b \in names \cup {"b5"} }

\* the configurations a one-channel catalog of k entries is filtered with
OneChannelConfigs(k) ==
    { Config(ps, full) : ps \in { << >>, << PkgCfg("p1") >>,
                                  << [PkgCfg("p1") EXCEPT !.Channels = << ChCfg("c1", << >>) >>] >> },
                         full \in BOOLEAN }
    \cup { Config(<< [PkgCfg("p1") EXCEPT !.VersionRange = r] >>, FALSE) :
             r \in Ranges(MaxEntries) \cup { << 0 >> } }
    \cup { Config(<< [PkgCfg("p1") EXCEPT !.Channels = << ChCfg("c1", << 1, 1 >>) >>] >>, FALSE) }
    \cup { Config(<< [PkgCfg("p1") EXCEPT !.SelectedBundles = sel] >>, FALSE) :
             sel \in Selections(k) }
    \cup { Config(<< [PkgCfg("p1") EXCEPT !.VersionRange = << 1, 1 >>] >>, TRUE),
           Config(<< [PkgCfg("p1") EXCEPT !.SelectedBundles = Selection({"b1"})] >>, TRUE),
           Config(<< [PkgCfg("p1") EXCEPT !.SelectedBundles = Selection({"b1"}),
                                          !.VersionRange = << 1, 1 >>] >>, FALSE) }

\* the configurations the two-package catalogs are filtered with
TwoPackagePkgs ==
    { << >>,
      << PkgCfg("p1") >>,
      << PkgCfg("p2") >>,
      << PkgCfg("p1"), PkgCfg("p2") >>,
      << [PkgCfg("p1") EXCEPT !.DefaultChannel = "c2"] >>,
      << [PkgCfg("p1") EXCEPT !.DefaultChannel = "c3"] >>,
      << [PkgCfg("p1") EXCEPT !.Channels = << ChCfg("c2", << >>) >>] >>,
      << [PkgCfg("p1") EXCEPT !.Channels = << ChCfg("c2", << >>) >>, !.DefaultChannel = "c2"] >>,
      << [PkgCfg("p1") EXCEPT !.Channels = << ChCfg("c3", << >>) >>] >>,
      << [PkgCfg("p1") EXCEPT !.Channels = << ChCfg("c1", << 1, 1 >>), ChCfg("c2", << >>) >>] >>,
      << [PkgCfg("p1") EXCEPT !.SelectedBundles = Selection({"b2"})] >>,
      << [PkgCfg("p1") EXCEPT !.SelectedBundles = Selection({"b2", "b3"})] >>,
      << [PkgCfg("p1") EXCEPT !.VersionRange = << 2, 3 >>], PkgCfg("p2") >>,
      << [PkgCfg("p1") EXCEPT !.Channels = << ChCfg("c1", << >>) >>],
         [PkgCfg("p1") EXCEPT !.Channels = << ChCfg("c2", << >>) >>] >>,
      \* a package the catalogs do not have
      << PkgCfg("p3") >>,
      << [PkgCfg("p1") EXCEPT !.Channels = << ChCfg("c2", << >>) >>, !.DefaultChannel = "c2"],
         PkgCfg("p3") >>,
      \* a package range beside a channel range and a channel without range
      << [PkgCfg("p1") EXCEPT !.VersionRange = << 2, 3 >>,
                              !.Channels = << ChCfg("c1", << 1, 1 >>), ChCfg("c2", << >>) >>] >>,
      \* a channel filter that removes the default channel c1 and whose range empties
      \* the channel it keeps; two channels that both fail, each for its own reason
      << [PkgCfg("p1") EXCEPT !.Channels = << ChCfg("c2", << 1, 1 >>) >>] >>,
      << [PkgCfg("p1") EXCEPT !.Channels = << ChCfg("c1", << 3, 3 >>), ChCfg("c2", << 0 >>) >>] >>,
      \* a package without any default channel ahead of one whose default is lost
      << PkgCfg("p1"),
         [PkgCfg("p2") EXCEPT !.DefaultChannel = "c1",
                              !.Channels = << ChCfg("c3", << 3, 3 >>) >>] >>,
      \* two packages whose default channel is lost
      << [PkgCfg("p1") EXCEPT !.DefaultChannel = "c3"],
         [PkgCfg("p2") EXCEPT !.DefaultChannel = "c1"] >>,
      << [PkgCfg("p1") EXCEPT !.Channels = << ChCfg("c2", << >>) >>],
         [PkgCfg("p2") EXCEPT !.DefaultChannel = "c1"] >>,
      << [PkgCfg("p1") EXCEPT !.DefaultChannel = "c2"],
         [PkgCfg("p2") EXCEPT !.Channels = << ChCfg("c1", << >>) >>] >>,
      << [PkgCfg("p1") EXCEPT !.DefaultChannel = "c2"],
         [PkgCfg("p2") EXCEPT !.DefaultChannel = "c1"] >>,
      \* a version range, or a selection with a version range, on a package none of
      \* whose channels is kept
      << [PkgCfg("p3") EXCEPT !.VersionRange = << 1, 1 >>] >>,
      << [PkgCfg("p1") EXCEPT !.Channels = << ChCfg("c3", << 1, 1 >>) >>] >>,
      << [PkgCfg("p3") EXCEPT !.SelectedBundles = Selection({"b1"}), !.VersionRange = << 1, 1 >>] >> }

TwoPackageConfigs == { Config(ps, full) : ps \in TwoPackagePkgs, full \in BOOLEAN }

\* a package p1 that has bundles and no channel, beside the package p2 with the
\* channel c3, and the configurations it is filtered with
NoChannelCatalogs ==
    { [Packages |-> << Pkg("p1", ""), Pkg("p2", "c3") >>,
       Channels |-> << Chan("p2", "c3", << Entry("b1", "b0", {}) >>) >>,
       Bundles |-> << Bundle("p1", "b1", 1), Bundle("p1", "b2", 2), Bundle("p2", "b1", 1) >>,
       Deprecations |-> << >>,
       Others |-> << >>] }

NoChannelConfigs ==
    { Config(ps, FALSE) :
        ps \in { << [PkgCfg("p1") EXCEPT !.SelectedBundles = Selection({"b2"})] >>,
                 << [PkgCfg("p1") EXCEPT !.SelectedBundles = Selection({"b2"})], PkgCfg("p2") >>,
                 << PkgCfg("p1"), PkgCfg("p2") >> } }

\* a catalog with the configuration of one call
Inputs ==
    UNION { OneChannelCatalogs(k) \X OneChannelConfigs(k) : k \in 1..MaxEntries }
        \cup (TwoPackageCatalogs \X TwoPackageConfigs)
        \cup (NoChannelCatalogs \X NoChannelConfigs)

\* the catalogs two concurrent calls share, with the configuration of each call
ConcPkgs ==
    { << >>,
      << PkgCfg("p1") >>,
      << [PkgCfg("p1") EXCEPT !.SelectedBundles = Selection({"b1"})] >>,
      << [PkgCfg("p1") EXCEPT !.SelectedBundles = Selection({"b2"})] >>,
      << [PkgCfg("p1") EXCEPT !.VersionRange = << 1, 1 >>] >> }

ConcConfigs ==
    { Config(ps, FALSE) : ps \in ConcPkgs } \cup { Config(<< >>, TRUE), Config(<< PkgCfg("p1") >>, TRUE) }

ConcCatalogs ==
    UNION { { c \in OneChannelCatalogs(k) : Len(c.Bundles) = k } : k \in 1..ConcEntries }
        \cup { c \in TwoPackageCatalogs :
                 /\ c.Packages[1].DefaultChannel = "c1"
                 /\ c.Deprecations # << >>
                 /\ \A i \in 1..Len(c.Bundles) : c.Bundles[i].Version > 0 }

ConcInputs == ConcCatalogs \X ConcConfigs \X ConcConfigs

(***************************************************************************)
(* The state: the catalog a caller holds (input, the value it had before   *)
(* any call, behind the pointer fbc on the heap mem), the configuration of *)
(* each call, the locals of each call and what each call returned.         *)
(* Beside them: the record handed to KeepMeta and its answer (meta, answer),*)
(* and the document handed to LoadFilterConfiguration and what it and     *)
(* Validate returned (doc, loaded).                                        *)
(***************************************************************************)
VARIABLES input, fbc, cfgs, mem, calls, rets, meta, answer, doc, loaded

vars == << input, fbc, cfgs, mem, calls, rets, meta, answer, doc, loaded >>

EmptyCatalog ==
    [Packages |-> << >>, Channels |-> << >>, Bundles |-> << >>, Deprecations |-> << >>,
     Others |-> << >>]

\* a call not begun, and a call that has not returned
Idle == [NewCall(NewMirrorFilter(Config(<< >>, FALSE), FALSE), 0) EXCEPT !.pc = "idle"]
NotReturned ==
    [done |-> FALSE, out |-> 0, cat |-> EmptyCatalog, err |-> NoErr, arg |-> EmptyCatalog]

\* what the caller holds when the call l returns on the heap m: the pointer out, the
\* catalog behind it, the error, and the catalog behind the pointer it passed
Ret(m, l) ==
    [done |-> TRUE, out |-> l.out,
     cat |-> IF l.out = 0 THEN EmptyCatalog ELSE View(m, l.out),
     err |-> l.err,
     arg |-> IF l.src = 0 THEN EmptyCatalog ELSE View(m, l.src)]

Filter(cfg) == NewMirrorFilter(cfg, cfg.Full)

\* no record handed to KeepMeta, no document handed to LoadFilterConfiguration
ZeroMeta == [Schema |-> "", Name |-> "", Package |-> ""]
NoAnswer == [done |-> FALSE, ok |-> FALSE]
NoKeepMeta == meta = ZeroMeta /\ answer = NoAnswer
ZeroDoc == [readable |-> TRUE, wellFormed |-> TRUE, APIVersion |-> "", Kind |-> "", Packages |-> << >>]
NotLoaded == [validated |-> FALSE, errs |-> << >>, done |-> FALSE, cfg |-> << >>, err |-> << >>]
NoLoad == doc = ZeroDoc /\ loaded = NotLoaded

\* the configurations of the calls without catalog: none and one package, a default
\* channel override, and the three mode conflicts, each with and without Full
NilCatalogConfigs ==
    { Config(pkgs, full) : full \in BOOLEAN,
      pkgs \in { << >>,
                 << PkgCfg("p1") >>,
                 << [PkgCfg("p1") EXCEPT !.DefaultChannel = "c3"] >>,
                 << [PkgCfg("p1") EXCEPT !.VersionRange = << 1, 2 >>] >>,
                 << [PkgCfg("p1") EXCEPT !.SelectedBundles = Selection({"b1"})] >>,
                 << [PkgCfg("p1") EXCEPT !.SelectedBundles = Selection({"b1"}),
                                         !.VersionRange = << 1, 2 >>,
                                         !.DefaultChannel = "c3"] >> } }

\* a catalog and a configuration, or no catalog at all (fbc == nil)
Init ==
    /\ \/ \E in \in Inputs :
            /\ input = in[1]
            /\ fbc = 1
            /\ cfgs = << in[2], in[2] >>
            /\ mem = Load(in[1])
       \/ \E cfg \in NilCatalogConfigs :
            /\ input = EmptyCatalog
            /\ fbc = 0
            /\ cfgs = << cfg, cfg >>
            /\ mem = EmptyMem
    /\ calls = << NewCall(Filter(cfgs[1]), fbc), Idle >>
    /\ rets = << NotReturned, NotReturned >>
    /\ NoKeepMeta
    /\ NoLoad

\* a call that returned a catalog and no error
Success(r) == r.done /\ r.err = NoErr /\ r.out # 0

\* f.FilterCatalog(ctx, fbc)
FilterCatalog ==
    /\ calls[1].pc = "start"
    /\ LET r == RunFrom(mem, calls[1])
       IN /\ mem' = r.m
          /\ calls' = [calls EXCEPT ![1] = r.l]
          /\ rets' = [rets EXCEPT ![1] = Ret(r.m, r.l)]
    /\ UNCHANGED << input, fbc, cfgs, meta, answer, doc, loaded >>

\* f.FilterCatalog(ctx, out) with the same filter on the catalog the first call returned
FilterAgain ==
    /\ Success(rets[1])
    /\ calls[2].pc = "idle"
    /\ LET r == FilterCatalogCall(mem, calls[1].f, rets[1].out)
       IN /\ mem' = r.m
          /\ calls' = [calls EXCEPT ![2] = r.l]
          /\ rets' = [rets EXCEPT ![2] = Ret(r.m, r.l)]
    /\ UNCHANGED << input, fbc, cfgs, meta, answer, doc, loaded >>

Next == FilterCatalog \/ FilterAgain

Spec == Init /\ [][Next]_vars

(***************************************************************************)
(* Two calls on the same catalog, each running in a goroutine of its own.  *)
(* The calls interleave at the steps of Step; the writes of one step are   *)
(* taken as one.                                                           *)
(***************************************************************************)
InitConc ==
    /\ \E in \in ConcInputs :
          /\ input = in[1]
          /\ cfgs = << in[2], in[3] >>
          /\ mem = Load(in[1])
    /\ fbc = 1
    /\ calls = << NewCall(Filter(cfgs[1]), fbc), NewCall(Filter(cfgs[2]), fbc) >>
    /\ rets = << NotReturned, NotReturned >>
    /\ NoKeepMeta
    /\ NoLoad

CallStep(i) ==
    /\ calls[i].pc \notin {"idle", "done"}
    /\ LET s == Step(mem, calls[i])
       IN /\ mem' = s.m
          /\ calls' = [calls EXCEPT ![i] = s.l]
          /\ rets' = IF s.l.pc = "done" THEN [rets EXCEPT ![i] = Ret(s.m, s.l)] ELSE rets
    /\ UNCHANGED << input, fbc, cfgs, meta, answer, doc, loaded >>

FirstCallStep == CallStep(1)
SecondCallStep == CallStep(2)

NextConc == FirstCallStep \/ SecondCallStep

SpecConc == InitConc /\ [][NextConc]_vars

(***************************************************************************)
(* KeepMeta: the question a streaming reader asks for each record of a     *)
(* catalog, before the record is decoded.                                  *)
(***************************************************************************)
\* a KeepMeta that reads the Package field of every record
KeepMeta_PackageFieldOnly(f, m) ==
    IF DOMAIN f.chConfigs = {} THEN FALSE ELSE m.Package \in DOMAIN f.chConfigs

\* mirrorFilter.KeepMeta
KeepMeta(f, m) ==
    IF DOMAIN f.chConfigs = {}
    THEN FALSE
    ELSE LET packageName == IF m.Schema = SchemaPackage THEN m.Name ELSE m.Package
         IN packageName \in DOMAIN f.chConfigs

\* the records: every schema of a catalog and one that is none of them, a package
\* record whose Package field is empty or differs from its name
MetaSchemas == { SchemaPackage, SchemaChannel, SchemaBundle, "olm.deprecations", "other" }
Metas ==
    { [Schema |-> s, Name |-> n, Package |-> p] :
        s \in MetaSchemas, n \in { "", "p1", "p2", "b1" }, p \in { "", "p1", "p2", "p3" } }

\* the configurations: none, FilterConfiguration{}, packages with and without channels
MetaConfigs ==
    { Config(ps, FALSE) :
        ps \in { << >>,
                 << PkgCfg("p1") >>,
                 << PkgCfg("p1"), PkgCfg("p2") >>,
                 << PkgCfg("p2"), PkgCfg("p3") >>,
                 << [PkgCfg("p1") EXCEPT !.Channels = << ChCfg("c1", << >>) >>] >>,
                 << [PkgCfg("p3") EXCEPT !.SelectedBundles = Selection({"b1"})] >> } }

InitMeta ==
    /\ \E c \in MetaConfigs : cfgs = << c, c >>
    /\ meta \in Metas
    /\ answer = NoAnswer
    /\ input = EmptyCatalog
    /\ fbc = 0
    /\ mem = EmptyMem
    /\ calls = << Idle, Idle >>
    /\ rets = << NotReturned, NotReturned >>
    /\ NoLoad

\* f.KeepMeta(meta)
CallKeepMeta ==
    /\ ~answer.done
    /\ answer' = [done |-> TRUE, ok |-> KeepMeta(Filter(cfgs[1]), meta)]
    /\ UNCHANGED << input, fbc, cfgs, mem, calls, rets, meta, doc, loaded >>

NextMeta == CallKeepMeta

SpecMeta == InitMeta /\ [][NextMeta]_vars

(***************************************************************************)
(* The configuration file.  A document is what a reader delivers: bytes    *)
(* that can be read or not, that are a YAML document or not, and the       *)
(* fields of the document.  An error is the list of the messages joined in *)
(* it, << >> being nil; a message names its rule and the indices of the    *)
(* package and of the channel it is about (0 for none).  A pointer to a    *)
(* configuration is << >> when nil and << cfg >> otherwise.                *)
(***************************************************************************)
FilterAPIVersion == "olm.operatorframework.io/filter/mirror/v1alpha1"
FilterKind == "FilterConfiguration"

VErr(msg, i, j) == [msg |-> msg, pkg |-> i, ch |-> j]

\* the body of the loop over pkg.Channels, from the channel at index j on
RECURSIVE validateChannels(_, _, _)
validateChannels(pkg, i, j) ==
    IF j > Len(pkg.Channels)
    THEN << >>
    ELSE LET channel == pkg.Channels[j]
         IN (IF channel.Name = ""
             THEN << VErr("channel name must be specified", i, j) >> ELSE << >>)
            \o (IF channel.VersionRange # << >> /\ pkg.VersionRange # << >>
                THEN << VErr("package.VersionRange and channel.VersionRange are exclusive", i, j) >>
                ELSE << >>)
            \o (IF channel.VersionRange # << >> /\ ~ConstraintParses(channel.VersionRange)
                THEN << VErr("channel versionRange is not in valid semantic versionning format", i, j) >>
                ELSE << >>)
            \o validateChannels(pkg, i, j + 1)

\* the body of the loop over f.Packages, from the package at index i on
RECURSIVE validatePackages(_, _)
validatePackages(f, i) ==
    IF i > Len(f.Packages)
    THEN << >>
    ELSE LET pkg == f.Packages[i]
         IN (IF pkg.Name = ""
             THEN << VErr("name must be specified", i, 0) >> ELSE << >>)
            \o (IF Len(pkg.SelectedBundles) > 0
                   /\ (Len(pkg.Channels) > 0 \/ pkg.VersionRange # << >>)
                THEN << VErr("mixing both filtering by bundles and filtering by channels or versionRange is not allowed", i, 0) >>
                ELSE << >>)
            \o (IF pkg.VersionRange # << >> /\ ~ConstraintParses(pkg.VersionRange)
                THEN << VErr("versionRange is not in valid semantic versionning format", i, 0) >>
                ELSE << >>)
            \o validateChannels(pkg, i, 1)
            \o validatePackages(f, i + 1)

\* every append of Validate in the order of the code
validateErrs(f) ==
    (IF f.APIVersion # FilterAPIVersion THEN << VErr("unexpected API version", 0, 0) >> ELSE << >>)
    \o (IF f.Kind # FilterKind THEN << VErr("unexpected kind", 0, 0) >> ELSE << >>)
    \o validatePackages(f, 1)

\* a Validate that returns at the first problem it finds
Validate_StopAtFirst(f) ==
    IF validateErrs(f) = << >> THEN << >> ELSE << Head(validateErrs(f)) >>

\* FilterConfiguration.Validate: errors.Join(errs...), nil when errs is empty
Validate(f) == validateErrs(f)

\* yaml.Unmarshal(data, cfg): the fields of the document in a FilterConfiguration
Unmarshal(d) == [APIVersion |-> d.APIVersion, Kind |-> d.Kind, Packages |-> d.Packages]

\* LoadFilterConfiguration(r): the pointer and the error it returns
LoadFilterConfigurationCall(d) ==
    IF ~d.readable THEN [cfg |-> << >>, err |-> << VErr("read error", 0, 0) >>]
    ELSE IF ~d.wellFormed THEN [cfg |-> << >>, err |-> << VErr("yaml error", 0, 0) >>]
    ELSE IF Validate(Unmarshal(d)) # << >> THEN [cfg |-> << >>, err |-> Validate(Unmarshal(d))]
    ELSE [cfg |-> << Unmarshal(d) >>, err |-> << >>]

\* the package filters of the documents: every rule of Validate kept and broken, alone
\* and together with others
DocPackages ==
    { [Name |-> n, DefaultChannel |-> "", VersionRange |-> r, Channels |-> cs,
       SelectedBundles |-> bs] :
        n \in { "", "p1" },
        r \in { << >>, << 1, 2 >>, << 0 >> },
        cs \in { << >>, << ChCfg("c1", << >>) >>, << ChCfg("", << 1, 1 >>) >>,
                 << ChCfg("c1", << 0 >>), ChCfg("c2", << 1, 2 >>) >> },
        bs \in { << >>, Selection({"b1"}) } }

Docs ==
    { [readable |-> TRUE, wellFormed |-> TRUE, APIVersion |-> a, Kind |-> k, Packages |-> ps] :
        a \in { FilterAPIVersion, "v1" },
        k \in { FilterKind, "DeclarativeConfig" },
        ps \in { << >> } \cup { << p >> : p \in DocPackages }
                 \cup { << PkgCfg("p2"), p >> : p \in DocPackages } }
    \cup { [ZeroDoc EXCEPT !.readable = FALSE], [ZeroDoc EXCEPT !.wellFormed = FALSE] }

InitLoad ==
    /\ doc \in Docs
    /\ loaded = NotLoaded
    /\ input = EmptyCatalog
    /\ fbc = 0
    /\ cfgs = << Config(<< >>, FALSE), Config(<< >>, FALSE) >>
    /\ mem = EmptyMem
    /\ calls = << Idle, Idle >>
    /\ rets = << NotReturned, NotReturned >>
    /\ NoKeepMeta

\* cfg.Validate() on the configuration a caller built from the fields of the document
CallValidate ==
    /\ doc.readable /\ doc.wellFormed
    /\ ~loaded.validated
    /\ loaded' = [loaded EXCEPT !.validated = TRUE, !.errs = Validate(Unmarshal(doc))]
    /\ UNCHANGED << input, fbc, cfgs, mem, calls, rets, meta, answer, doc >>

\* LoadFilterConfiguration(r) on a reader of the document
LoadFilterConfiguration ==
    /\ ~loaded.done
    /\ LET r == LoadFilterConfigurationCall(doc)
       IN loaded' = [loaded EXCEPT !.done = TRUE, !.cfg = r.cfg, !.err = r.err]
    /\ UNCHANGED << input, fbc, cfgs, mem, calls, rets, meta, answer, doc >>

NextLoad == CallValidate \/ LoadFilterConfiguration

SpecLoad == InitLoad /\ [][NextLoad]_vars

(***************************************************************************)
(* Properties.  The call c is the first call (on input) or the second (on  *)
(* what the first returned).                                               *)
(***************************************************************************)
\* the catalog the call c was given, as it was before the call
ArgBefore(c) == IF c = 1 THEN input ELSE rets[1].cat

\* the names an entry list holds, and the names its entries replace or skip
NamesIn(entries) == { entries[i].Name : i \in 1..Len(entries) }
TargetsOf(e) == (IF e.Replaces = "" THEN {} ELSE {e.Replaces}) \cup e.Skips

\* the positions of the entries no other entry of the list replaces or skips
HeadPositions(entries) ==
    { i \in 1..Len(entries) :
        \A j \in 1..Len(entries) : j # i => entries[i].Name \notin TargetsOf(entries[j]) }

\* the channels of the catalog cat with that package and name
ChannelsNamed(cat, p, n) ==
    { i \in 1..Len(cat.Channels) : cat.Channels[i].Package = p /\ cat.Channels[i].Name = n }

ChannelsOfPkg(cat, p) == { i \in 1..Len(cat.Channels) : cat.Channels[i].Package = p }

\* the (package, name) pairs the channel entries of the catalog name
NamedByEntries(cat) ==
    UNION { { << cat.Channels[i].Package, n >> : n \in NamesIn(cat.Channels[i].Entries) } :
            i \in 1..Len(cat.Channels) }

\* C1: after every successful FilterCatalog call every channel of the output has
\* exactly one head: exactly one entry whose name no other entry of the channel
\* replaces or skips, whatever the mode
C1_ExactlyOneHead ==
    \A c \in 1..2 : Success(rets[c]) =>
        \A i \in 1..Len(rets[c].cat.Channels) :
            Cardinality(HeadPositions(rets[c].cat.Channels[i].Entries)) = 1

\* C2 as claimed: after every successful call every name an output entry replaces or
\* skips is an entry of the same output channel or was a phantom of that channel in
\* the input
C2_TargetsKeptOrPhantom ==
    Success(rets[1]) =>
        \A i \in 1..Len(rets[1].cat.Channels) :
            LET ch == rets[1].cat.Channels[i]
                before == UNION { NamesIn(input.Channels[j].Entries) :
                                  j \in ChannelsNamed(input, ch.Package, ch.Name) }
            IN \A k \in 1..Len(ch.Entries) :
                  \A t \in TargetsOf(ch.Entries[k]) :
                      t \in NamesIn(ch.Entries) \/ t \notin before

\* C2 as amended: after every successful call every entry of an output channel is an
\* entry of the same channel of the input with its replaces and skips as they were,
\* so a name it mentions is an entry of the input channel, kept or not, or a phantom
\* of the input
C2_EntriesVerbatim ==
    \A c \in 1..2 : Success(rets[c]) =>
        \A i \in 1..Len(rets[c].cat.Channels) :
            LET ch == rets[c].cat.Channels[i]
            IN \E j \in ChannelsNamed(ArgBefore(c), ch.Package, ch.Name) :
                  \A k \in 1..Len(ch.Entries) :
                      ch.Entries[k] \in Range(ArgBefore(c).Channels[j].Entries)

\* a successful call kept an entry that replaces or skips an entry it removed
C2_Witness ==
    /\ Success(rets[1])
    /\ \E i \in 1..Len(rets[1].cat.Channels) :
          LET ch == rets[1].cat.Channels[i]
          IN \E j \in ChannelsNamed(input, ch.Package, ch.Name) :
                \E k \in 1..Len(ch.Entries) :
                    \E t \in TargetsOf(ch.Entries[k]) :
                        /\ t \in NamesIn(input.Channels[j].Entries)
                        /\ t \notin NamesIn(ch.Entries)

\* C3: after every successful call with full=false every bundle of the output has the
\* package and name of an entry of a channel of that package in the output
C3_BundlesHaveEntries ==
    (Success(rets[1]) /\ ~cfgs[1].Full) =>
        \A i \in 1..Len(rets[1].cat.Bundles) :
            << rets[1].cat.Bundles[i].Package, rets[1].cat.Bundles[i].Name >>
                \in NamedByEntries(rets[1].cat)

\* C4: after every successful call every deprecation entry of the output that
\* references a channel or a bundle names a channel or a Bundle record of that
\* package in the output
C4_DeprecationsReferenceSurvivors ==
    Success(rets[1]) =>
        \A i \in 1..Len(rets[1].cat.Deprecations) :
            LET d == rets[1].cat.Deprecations[i]
            IN \A k \in 1..Len(d.Entries) :
                  /\ d.Entries[k].Schema = SchemaChannel
                        => ChannelsNamed(rets[1].cat, d.Package, d.Entries[k].Name) # {}
                  /\ d.Entries[k].Schema = SchemaBundle
                        => \E b \in Range(rets[1].cat.Bundles) :
                              b.Package = d.Package /\ b.Name = d.Entries[k].Name

\* C5: after every successful call every package of the output with a non-empty
\* defaultChannel has a channel of that name and that package in the output
C5_DefaultChannelRetained ==
    \A c \in 1..2 : Success(rets[c]) =>
        \A i \in 1..Len(rets[c].cat.Packages) :
            LET pkg == rets[c].cat.Packages[i]
            IN pkg.DefaultChannel # "" =>
                  ChannelsNamed(rets[c].cat, pkg.Name, pkg.DefaultChannel) # {}

\* a successful call removed a channel of a package that has a default channel
C5_Witness ==
    /\ Success(rets[1])
    /\ \E i \in 1..Len(rets[1].cat.Packages) :
          LET pkg == rets[1].cat.Packages[i]
          IN /\ pkg.DefaultChannel # ""
             /\ Cardinality(ChannelsOfPkg(rets[1].cat, pkg.Name))
                   < Cardinality(ChannelsOfPkg(input, pkg.Name))

\* C6: idempotence: when FilterCatalog succeeds, the same filter applied to what it
\* returned succeeds too and returns an equal catalog (packages, channels, entries,
\* bundles and deprecation entries, in the same order)
C6_Idempotent ==
    (Success(rets[1]) /\ rets[2].done) =>
        Success(rets[2]) /\ rets[2].cat = rets[1].cat

\* C7: a successful call leaves what the caller's catalog holds as it was before the
\* call, and returns an object that is not the caller's
C7_InputUntouched ==
    Success(rets[1]) => rets[1].arg = input /\ rets[1].out # fbc

\* what the call i returns when it runs alone on a copy of the catalog
Alone(i) == FilterCatalogCall(Load(input), Filter(cfgs[i]), 1)

\* C8: each of two concurrent calls on the same catalog returns what it returns when
\* run alone on a pristine copy of the catalog
C8_NoInterference ==
    \A i \in 1..2 : rets[i].done =>
        LET alone == Alone(i)
        IN /\ rets[i].err = alone.l.err
           /\ (rets[i].out = 0) = (alone.l.out = 0)
           /\ rets[i].cat = Ret(alone.m, alone.l).cat

\* the call c has an empty configuration and full=true
FullEmptyConfig(c) == cfgs[c].Packages = << >> /\ cfgs[c].Full

SortedByPackageAndName(bs) ==
    \A i \in 1..Len(bs) : \A j \in 1..Len(bs) :
        i < j => \/ Rank(bs[i].Package) < Rank(bs[j].Package)
                 \/ bs[i].Package = bs[j].Package /\ Rank(bs[i].Name) < Rank(bs[j].Name)

DefaultHeadPackages ==
    { pkg.Name : pkg \in { x \in Range(input.Packages) :
        \/ cfgs[1].Packages = << >>
        \/ /\ x.Name \in DOMAIN Filter(cfgs[1]).pkgConfigs
           /\ PkgConfigOf(Filter(cfgs[1]), x.Name).Channels = << >>
           /\ PkgConfigOf(Filter(cfgs[1]), x.Name).SelectedBundles = << >>
           /\ PkgConfigOf(Filter(cfgs[1]), x.Name).VersionRange = << >> } }

\* the output holds one channel of the package p: its default channel, with one
\* entry, the head of that channel in the input
OnlyDefaultChannelHead(p) ==
    LET out == rets[1].cat
    IN /\ Cardinality(ChannelsOfPkg(out, p)) = 1
       /\ \A i \in ChannelsOfPkg(out, p) :
             LET ch == out.Channels[i]
             IN /\ \E k \in 1..Len(out.Packages) :
                      out.Packages[k].Name = p /\ out.Packages[k].DefaultChannel = ch.Name
                /\ Len(ch.Entries) = 1
                /\ \E j \in ChannelsNamed(input, p, ch.Name) :
                      /\ Cardinality(HeadPositions(input.Channels[j].Entries)) = 1
                      /\ \A h \in HeadPositions(input.Channels[j].Entries) :
                            ch.Entries[1] = input.Channels[j].Entries[h]

\* the bundles of the package p in the catalog cat, in order
BundlesOfPkg(cat, p) == SelectSeq(cat.Bundles, LAMBDA b : b.Package = p)

\* the name of the one entry of the one channel the output has of the package p
HeadKept(p) ==
    LET i == CHOOSE j \in ChannelsOfPkg(rets[1].cat, p) : TRUE
    IN rets[1].cat.Channels[i].Entries[1].Name

ConfiguredNames(c) == { cfgs[c].Packages[i].Name : i \in 1..Len(cfgs[c].Packages) }
ListedChannels(c, p) ==
    UNION { { cfgs[c].Packages[i].Channels[j].Name : j \in 1..Len(cfgs[c].Packages[i].Channels) } :
            i \in { k \in 1..Len(cfgs[c].Packages) : cfgs[c].Packages[k].Name = p } }

\* the names of the packages of a catalog, in order
PackageNames(cat) == Tabulate(LAMBDA i : cat.Packages[i].Name, Len(cat.Packages))

\* C11: with a non-empty configuration the output packages of a successful call are
\* the input packages whose name is configured, in input order; no channel, bundle
\* or deprecation of an unconfigured package is in the output; of a package whose
\* filter lists channels only channels with a listed name are in the output; and
\* the Others records kept are those whose package is empty or configured
C11_PrunedToConfiguredPackages ==
    \A c \in 1..2 : (Success(rets[c]) /\ cfgs[c].Packages # << >>) =>
        LET in == ArgBefore(c)
            out == rets[c].cat
            cfgd(n) == n \in ConfiguredNames(c)
        IN /\ PackageNames(out) =
                 SelectSeq(PackageNames(in), LAMBDA n : cfgd(n))
           /\ \A i \in 1..Len(out.Channels) :
                 /\ cfgd(out.Channels[i].Package)
                 /\ ListedChannels(c, out.Channels[i].Package) # {}
                       => out.Channels[i].Name \in ListedChannels(c, out.Channels[i].Package)
           /\ \A i \in 1..Len(out.Bundles) : cfgd(out.Bundles[i].Package)
           /\ \A i \in 1..Len(out.Deprecations) : cfgd(out.Deprecations[i].Package)
           /\ out.Others = SelectSeq(in.Others, LAMBDA o : o.Package = "" \/ cfgd(o.Package))

\* a successful call whose configuration names p1, listing one channel of it, and a
\* package p3 the catalog does not have: the package p2 with its channel, bundle,
\* deprecations and Others record, and the other channels of p1, were in the input
\* and are not in the output
C11_Witness ==
    /\ Success(rets[1])
    /\ ConfiguredNames(1) = {"p1", "p3"}
    /\ ListedChannels(1, "p1") = {"c2"}
    /\ Len(input.Packages) = 2
    /\ Len(rets[1].cat.Packages) = 1
    /\ Len(input.Channels) = 3
    /\ Len(rets[1].cat.Channels) = 1
    /\ Len(input.Deprecations) = 2
    /\ Len(rets[1].cat.Others) = 2

\* the default channel the configuration of the call c gives the package p ("" for
\* none), and the channel names of p that survive package/channel pruning
ConfiguredDefault(c, p) == PkgConfigOf(Filter(cfgs[c]), p).DefaultChannel
SurvivingChannels(c, p) ==
    { ch.Name : ch \in { x \in Range(ArgBefore(c).Channels) :
        /\ x.Package = p
        /\ ListedChannels(c, p) = {} \/ x.Name \in ListedChannels(c, p) } }

\* the call c gets as far as the package loop: its catalog is not nil, its
\* configuration names a package, and the bundles of the configured packages have a
\* version (the index is built)
ReachesPackages(c) ==
    /\ rets[c].done
    /\ fbc # 0
    /\ cfgs[c].Packages # << >>
    /\ \A b \in Range(ArgBefore(c).Bundles) : b.Package \in ConfiguredNames(c) => b.Version > 0

\* the configured default channel of the i-th package of the catalog did not survive
OverrideLost(c, i) ==
    LET p == ArgBefore(c).Packages[i].Name
    IN /\ p \in ConfiguredNames(c)
       /\ ConfiguredDefault(c, p) # ""
       /\ ConfiguredDefault(c, p) \notin SurvivingChannels(c, p)

\* the original default channel of the i-th package, which the configuration does
\* not override, did not survive
OriginalLost(c, i) ==
    LET pkg == ArgBefore(c).Packages[i]
    IN /\ pkg.Name \in ConfiguredNames(c)
       /\ ConfiguredDefault(c, pkg.Name) = ""
       /\ pkg.DefaultChannel # ""
       /\ pkg.DefaultChannel \notin SurvivingChannels(c, pkg.Name)

\* the i-th package has no default channel at all and its filter, a name only, asks
\* for the head of the default channel
NoDefaultToKeep(c, i) ==
    LET pkg == ArgBefore(c).Packages[i]
        pc == PkgConfigOf(Filter(cfgs[c]), pkg.Name)
    IN /\ pkg.Name \in ConfiguredNames(c)
       /\ pc.DefaultChannel = "" /\ pkg.DefaultChannel = ""
       /\ pc.Channels = << >> /\ pc.SelectedBundles = << >> /\ ~cfgs[c].Full

\* the package loop ends the call at the i-th package of the catalog: no package
\* before it does
FirstToFail(c, i) ==
    \A j \in 1..(i - 1) : ~(OverrideLost(c, j) \/ OriginalLost(c, j) \/ NoDefaultToKeep(c, j))

\* C12: when the filter of a package specifies the default channel X and X is not a
\* channel name of the package surviving package/channel pruning, FilterCatalog
\* fails, with the error 'specified default channel override "X" does not exist in
\* the filtered output' when no earlier package ended the call; when X survives, the
\* package has the default channel X in the output of a successful call
C12_DefaultChannelOverride ==
    \A c \in 1..2 : ReachesPackages(c) =>
        \A i \in 1..Len(ArgBefore(c).Packages) :
            LET p == ArgBefore(c).Packages[i].Name
                X == ConfiguredDefault(c, p)
            IN (p \in ConfiguredNames(c) /\ X # "") =>
                  IF OverrideLost(c, i)
                  THEN /\ rets[c].out = 0
                       /\ rets[c].err # NoErr
                       /\ FirstToFail(c, i) =>
                             rets[c].err = Err("invalid default channel configuration for package",
                                               "specified default channel override does not exist in the filtered output",
                                               X)
                  ELSE Success(rets[c]) =>
                          \A k \in 1..Len(rets[c].cat.Packages) :
                              rets[c].cat.Packages[k].Name = p
                                  => rets[c].cat.Packages[k].DefaultChannel = X

\* a call failed on the override of the second package, c1, which is no channel of
\* p2, after the first package got the default channel c2 it was configured with
C12_Witness ==
    /\ rets[1].done
    /\ ConfiguredDefault(1, "p1") = "c2"
    /\ ConfiguredDefault(1, "p2") = "c1"
    /\ "c2" \in SurvivingChannels(1, "p1")
    /\ rets[1].err.inner = "specified default channel override does not exist in the filtered output"
    /\ rets[1].err.arg = "c1"

\* C13: when a configured package has the non-empty original default channel X, its
\* filter specifies no default channel and X does not survive channel pruning,
\* FilterCatalog fails, with the error 'the default channel "X" was filtered out, a
\* new default channel must be configured for this package' when no earlier package
\* ended the call; when the original and the configured default are both empty the
\* package keeps an empty default channel and no default channel configuration
\* error is raised for it
C13_OriginalDefaultFilteredOut ==
    \A c \in 1..2 : ReachesPackages(c) =>
        \A i \in 1..Len(ArgBefore(c).Packages) :
            LET pkg == ArgBefore(c).Packages[i]
                invalid == "invalid default channel configuration for package"
            IN (pkg.Name \in ConfiguredNames(c) /\ ConfiguredDefault(c, pkg.Name) = "") =>
                  IF OriginalLost(c, i)
                  THEN /\ rets[c].out = 0
                       /\ rets[c].err # NoErr
                       /\ FirstToFail(c, i) =>
                             rets[c].err = Err(invalid,
                                               "the default channel was filtered out, a new default channel must be configured for this package",
                                               pkg.DefaultChannel)
                  ELSE IF pkg.DefaultChannel = ""
                  THEN /\ Success(rets[c]) =>
                             \A k \in 1..Len(rets[c].cat.Packages) :
                                 rets[c].cat.Packages[k].Name = pkg.Name
                                     => rets[c].cat.Packages[k].DefaultChannel = ""
                       /\ rets[c].err.msg = invalid =>
                             \E j \in 1..Len(ArgBefore(c).Packages) :
                                 j # i /\ (OverrideLost(c, j) \/ OriginalLost(c, j))
                  ELSE TRUE

\* a call with full=true failed because the channel filter of p1, which lists c2
\* alone and configures no default channel, removed the default channel c1 of p1
C13_Witness ==
    /\ rets[1].done
    /\ cfgs[1].Full
    /\ OriginalLost(1, 1)
    /\ ListedChannels(1, "p1") = {"c2"}
    /\ rets[1].out = 0
    /\ rets[1].err.inner = "the default channel was filtered out, a new default channel must be configured for this package"
    /\ rets[1].err.arg = "c1"

\* a package filter of the configuration of the call c has a version range, at the
\* package or at one of its channels, or selects bundles
HasRange(pc) ==
    pc.VersionRange # << >> \/ \E j \in 1..Len(pc.Channels) : pc.Channels[j].VersionRange # << >>
ModeConflict(c) ==
    \E i \in 1..Len(cfgs[c].Packages) :
        LET pc == cfgs[c].Packages[i]
        IN \/ cfgs[c].Full /\ HasRange(pc)
           \/ cfgs[c].Full /\ pc.SelectedBundles # << >>
           \/ pc.SelectedBundles # << >> /\ HasRange(pc)

\* C14: for every configuration in which a configured package combines full=true
\* with a version range of the package or of a channel, full=true with a bundle
\* selection, or a bundle selection with a version range, FilterCatalog returns an
\* error and no catalog, whatever the input catalog holds
C14_ModeConflictsAreErrors ==
    \A c \in 1..2 : (rets[c].done /\ fbc # 0 /\ ModeConflict(c)) =>
        rets[c].err # NoErr /\ rets[c].out = 0

\* the version range the configuration of the call c applies to the channel ch of
\* the package p: the range of the channel filter, else the range of the package
\* filter, << >> for none
AppliedRange(c, p, ch) ==
    LET chRange == ChConfigOf(Filter(cfgs[c]), p, ch).VersionRange
    IN IF chRange # << >> THEN chRange ELSE PkgConfigOf(Filter(cfgs[c]), p).VersionRange

\* the version of the bundle n of the package p in the catalog cat, 0 for none
VersionIn(cat, p, n) ==
    LET hits == { i \in 1..Len(cat.Bundles) : cat.Bundles[i].Package = p /\ cat.Bundles[i].Name = n }
    IN IF hits = {} THEN 0 ELSE cat.Bundles[CHOOSE i \in hits : \A j \in hits : j <= i].Version

EffectiveDefault(c, p) ==
    LET hits == { i \in 1..Len(ArgBefore(c).Packages) : ArgBefore(c).Packages[i].Name = p }
        orig == ArgBefore(c).Packages[CHOOSE i \in hits : TRUE].DefaultChannel
    IN IF ConfiguredDefault(c, p) # "" THEN ConfiguredDefault(c, p) ELSE orig

\* the j-th channel of the catalog of the call c is kept by a non-empty
\* configuration: it survives pruning and the reduction of a package without
\* channel filters to its default channel
KeptChannel(c, j) ==
    LET ch == ArgBefore(c).Channels[j]
        pc == PkgConfigOf(Filter(cfgs[c]), ch.Package)
    IN /\ ch.Package \in ConfiguredNames(c)
       /\ \E i \in 1..Len(ArgBefore(c).Packages) : ArgBefore(c).Packages[i].Name = ch.Package
       /\ ch.Name \in SurvivingChannels(c, ch.Package)
       /\ (pc.Channels = << >> /\ pc.SelectedBundles = << >> /\ ~cfgs[c].Full)
             => ch.Name = EffectiveDefault(c, ch.Package)

\* the j-th channel is kept and filtered by a version range that parses
RangeFiltered(c, j) ==
    /\ KeptChannel(c, j)
    /\ Len(AppliedRange(c, ArgBefore(c).Channels[j].Package, ArgBefore(c).Channels[j].Name)) = 2

\* no entry of the j-th channel has a bundle whose version satisfies the range
NothingInRange(c, j) ==
    LET ch == ArgBefore(c).Channels[j]
        r == AppliedRange(c, ch.Package, ch.Name)
    IN \A e \in Range(ch.Entries) :
          LET v == VersionIn(ArgBefore(c), ch.Package, e.Name)
          IN ~(r[1] <= v /\ v <= r[2])

\* C16: when a version range applies to a channel and no entry of the channel has a
\* bundle version satisfying it, FilterCatalog fails and returns no catalog; the
\* error is the one of the range that 'results in an empty channel' when nothing
\* ends the call before: the channel is the only one of the catalog, it has one
\* head, no package lost its default channel and the modes do not conflict
C16_EmptyRangeIsAnError ==
    \A c \in 1..2 : ReachesPackages(c) =>
        \A j \in 1..Len(ArgBefore(c).Channels) :
            (RangeFiltered(c, j) /\ NothingInRange(c, j)) =>
                /\ rets[c].out = 0
                /\ rets[c].err # NoErr
                /\ ( /\ Len(ArgBefore(c).Channels) = 1
                     /\ Cardinality(HeadPositions(ArgBefore(c).Channels[j].Entries)) = 1
                     /\ FirstToFail(c, Len(ArgBefore(c).Packages) + 1)
                     /\ ~ModeConflict(c) )
                      => rets[c].err = Err("has version range that results in an empty channel", "",
                                           ArgBefore(c).Channels[j].Name)

\* the range >=2 <=3 on a channel whose head b2 has no Bundle record and whose other
\* entry b1 has version 1: nothing is in range and the call failed with the empty
\* channel error, although the head is always retained
C16_Witness ==
    /\ rets[1].done
    /\ Len(input.Channels) = 1
    /\ Len(input.Channels[1].Entries) = 2
    /\ Len(input.Bundles) = 1
    /\ AppliedRange(1, "p1", "c1") = << 2, 3 >>
    /\ RangeFiltered(1, 1) /\ NothingInRange(1, 1)
    /\ rets[1].out = 0
    /\ rets[1].err.msg = "has version range that results in an empty channel"

\* the call c met nothing that ends it before the channels are looked at, or in
\* another channel: the catalog has one channel, no package lost its default
\* channel, the modes do not conflict and the version ranges parse
NothingElseFails(c) ==
    /\ Len(ArgBefore(c).Channels) = 1
    /\ FirstToFail(c, Len(ArgBefore(c).Packages) + 1)
    /\ ~ModeConflict(c)
    /\ \A i \in 1..Len(cfgs[c].Packages) :
          /\ Len(cfgs[c].Packages[i].VersionRange) \in {0, 2}
          /\ \A k \in 1..Len(cfgs[c].Packages[i].Channels) :
                Len(cfgs[c].Packages[i].Channels[k].VersionRange) \in {0, 2}

\* C17: a channel whose entries form a cycle without head makes FilterCatalog fail
\* under any non-empty configuration that keeps the channel (name only, channel
\* filter, version range, full=true), with an error containing 'no channel heads
\* found' when nothing else ends the call before
C17_CycleIsAnError ==
    \A c \in 1..2 : ReachesPackages(c) =>
        \A j \in 1..Len(ArgBefore(c).Channels) :
            LET es == ArgBefore(c).Channels[j].Entries
            IN (KeptChannel(c, j) /\ es # << >> /\ HeadPositions(es) = {}) =>
                  /\ rets[c].out = 0
                  /\ rets[c].err # NoErr
                  /\ NothingElseFails(c) =>
                        "no channel heads found" \in {rets[c].err.msg, rets[c].err.inner}

\* C19: KeepMeta answers true exactly when the filter has a configured package and the
\* package name of the record (the record's own name for an olm.package record, its
\* Package field for every other schema) is the name of a configured package; with no
\* configured package it answers false for every record.
RecordPackage == IF meta.Schema = SchemaPackage THEN meta.Name ELSE meta.Package
C19_KeepMetaIffConfigured ==
    answer.done =>
        /\ answer.ok <=> (Len(cfgs[1].Packages) > 0 /\ RecordPackage \in ConfiguredNames(1))
        /\ Len(cfgs[1].Packages) = 0 => ~answer.ok

\* an olm.package record kept for its name, its Package field naming no configured package
C19_Witness ==
    /\ answer.done /\ answer.ok
    /\ meta.Schema = SchemaPackage
    /\ meta.Name \in ConfiguredNames(1)
    /\ meta.Package \notin ConfiguredNames(1)

\* C20: Validate succeeds exactly when the API version and the kind are the expected
\* ones, every package and channel filter has a name, no package has bundles together
\* with channels or a versionRange, no channel has a versionRange when its package has
\* one, and every versionRange parses; otherwise its error holds one message for every
\* violated rule instance, and LoadFilterConfiguration returns no configuration that
\* Validate rejects.
DocPkg(i) == doc.Packages[i]
DocCh(i, j) == doc.Packages[i].Channels[j]
DocPkgIdx == 1..Len(doc.Packages)
DocChIdx(i) == 1..Len(doc.Packages[i].Channels)
RulesHold ==
    /\ doc.APIVersion = FilterAPIVersion
    /\ doc.Kind = FilterKind
    /\ \A i \in DocPkgIdx :
          /\ DocPkg(i).Name # ""
          /\ DocPkg(i).SelectedBundles # << >> =>
                DocPkg(i).Channels = << >> /\ DocPkg(i).VersionRange = << >>
          /\ DocPkg(i).VersionRange # << >> => Len(DocPkg(i).VersionRange) = 2
          /\ \A j \in DocChIdx(i) :
                /\ DocCh(i, j).Name # ""
                /\ DocPkg(i).VersionRange # << >> => DocCh(i, j).VersionRange = << >>
                /\ DocCh(i, j).VersionRange # << >> => Len(DocCh(i, j).VersionRange) = 2
\* the violated rule instances: the rule, the package and the channel
Violations ==
    { <<"unexpected API version", 0, 0>> : x \in { 1 : y \in {doc.APIVersion} \ {FilterAPIVersion} } }
    \cup { <<"unexpected kind", 0, 0>> : x \in { 1 : y \in {doc.Kind} \ {FilterKind} } }
    \cup { <<"name must be specified", i, 0>> : i \in { k \in DocPkgIdx : DocPkg(k).Name = "" } }
    \cup { <<"mixing both filtering by bundles and filtering by channels or versionRange is not allowed", i, 0>> :
             i \in { k \in DocPkgIdx :
                       /\ DocPkg(k).SelectedBundles # << >>
                       /\ ~(DocPkg(k).Channels = << >> /\ DocPkg(k).VersionRange = << >>) } }
    \cup { <<"versionRange is not in valid semantic versionning format", i, 0>> :
             i \in { k \in DocPkgIdx : Len(DocPkg(k).VersionRange) = 1 } }
    \cup UNION { { <<"channel name must be specified", i, j>> :
                     j \in { l \in DocChIdx(i) : DocCh(i, l).Name = "" } } : i \in DocPkgIdx }
    \cup UNION { { <<"package.VersionRange and channel.VersionRange are exclusive", i, j>> :
                     j \in { l \in DocChIdx(i) : /\ DocPkg(i).VersionRange # << >>
                                                 /\ DocCh(i, l).VersionRange # << >> } } :
                 i \in DocPkgIdx }
    \cup UNION { { <<"channel versionRange is not in valid semantic versionning format", i, j>> :
                     j \in { l \in DocChIdx(i) : Len(DocCh(i, l).VersionRange) = 1 } } :
                 i \in DocPkgIdx }
Reported(errs) == { << errs[k].msg, errs[k].pkg, errs[k].ch >> : k \in 1..Len(errs) }
C20_ValidateReportsEveryViolation ==
    /\ loaded.validated =>
          /\ loaded.errs = << >> <=> RulesHold
          /\ Reported(loaded.errs) = Violations
          /\ Len(loaded.errs) = Cardinality(Violations)
    /\ loaded.done =>
          /\ loaded.cfg # << >> => Validate(loaded.cfg[1]) = << >> /\ RulesHold
          /\ loaded.cfg = << >> <=> loaded.err # << >>
          /\ (doc.readable /\ doc.wellFormed /\ ~RulesHold) =>
                loaded.cfg = << >> /\ Reported(loaded.err) = Violations

\* a document that breaks the kind rule and four rules of its second package: Validate
\* returned all five messages and LoadFilterConfiguration returned no configuration
C20_Witness ==
    /\ loaded.validated /\ loaded.done
    /\ Len(loaded.errs) = 5
    /\ loaded.errs[1].msg = "unexpected kind"
    /\ loaded.errs[5] = VErr("package.VersionRange and channel.VersionRange are exclusive", 2, 1)
    /\ loaded.cfg = << >>
    /\ loaded.err = loaded.errs

\* the names the filter of the package p selects in the call c, and the packages in
\* bundle-selection mode: a selection, no full=true, no version range
SelectedNames(c, p) == bundleNames(PkgConfigOf(Filter(cfgs[c]), p).SelectedBundles)
SelectionMode(c, p) ==
    /\ p \in ConfiguredNames(c)
    /\ SelectedNames(c, p) # {}
    /\ ~cfgs[c].Full
    /\ ~HasRange(PkgConfigOf(Filter(cfgs[c]), p))

\* the selected entries of the j-th channel of the catalog of the call c, in order
SelectedEntries(c, j) ==
    LET ch == ArgBefore(c).Channels[j]
    IN SelectSeq(ch.Entries, LAMBDA e : e.Name \in SelectedNames(c, ch.Package))

\* the kept channels of the package p that the selection leaves without a single head
InvalidatedChannels(c, p) ==
    { j \in ChannelsOfPkg(ArgBefore(c), p) :
        KeptChannel(c, j) /\ Cardinality(HeadPositions(SelectedEntries(c, j))) # 1 }

\* the Bundle records of the package p with a name of the set names: of records
\* with the same name the last, ordered by name
LastBundlesNamed(cat, p, names) ==
    LET idx == { i \in 1..Len(cat.Bundles) :
                   /\ cat.Bundles[i].Package = p /\ cat.Bundles[i].Name \in names
                   /\ \A k \in (i + 1)..Len(cat.Bundles) :
                         ~(cat.Bundles[k].Package = p /\ cat.Bundles[k].Name = cat.Bundles[i].Name) }
    IN SortBundles({ cat.Bundles[i] : i \in idx })

\* C21: in bundle-selection mode every channel of the package keeps exactly the
\* entries whose name is selected, in input order, and the bundles kept for the
\* package are the selected ones; when the selection leaves a channel of the package
\* without a single head, a channel without any selected bundle included, the call
\* fails, with 'filtering on the selected bundles leads to invalidating channel'
\* when nothing else ends the call before
C21_BundleSelection ==
    \A c \in 1..2 : ReachesPackages(c) =>
        \A p \in { q \in ConfiguredNames(c) : SelectionMode(c, q) } :
            IF InvalidatedChannels(c, p) # {}
            THEN /\ rets[c].out = 0
                 /\ rets[c].err # NoErr
                 /\ ( /\ FirstToFail(c, Len(ArgBefore(c).Packages) + 1)
                      /\ ~ModeConflict(c)
                      /\ \A j \in 1..Len(ArgBefore(c).Channels) :
                            KeptChannel(c, j) => ArgBefore(c).Channels[j].Package = p )
                       => /\ rets[c].err.msg = "filtering on the selected bundles leads to invalidating channel"
                          /\ \E j \in InvalidatedChannels(c, p) :
                                /\ rets[c].err.arg = ArgBefore(c).Channels[j].Name
                                /\ \A k \in InvalidatedChannels(c, p) : j <= k
            ELSE Success(rets[c]) =>
                    /\ \A i \in ChannelsOfPkg(rets[c].cat, p) :
                          \E j \in ChannelsNamed(ArgBefore(c), p, rets[c].cat.Channels[i].Name) :
                              rets[c].cat.Channels[i].Entries = SelectedEntries(c, j)
                    /\ Cardinality(ChannelsOfPkg(rets[c].cat, p))
                          = Cardinality({ j \in ChannelsOfPkg(ArgBefore(c), p) : KeptChannel(c, j) })
                    /\ BundlesOfPkg(rets[c].cat, p)
                          = LastBundlesNamed(ArgBefore(c), p, SelectedNames(c, p))

\* the version range the configuration of the call c gives the channel n of the
\* package p, read from the configuration itself: the range of the last channel
\* filter of that name, << >> for none, and the range of the last package filter
ListedRange(c, p, n) ==
    LET hits == UNION { { <<i, j>> : j \in { k \in 1..Len(cfgs[c].Packages[i].Channels) :
                                              cfgs[c].Packages[i].Channels[k].Name = n } } :
                        i \in { k \in 1..Len(cfgs[c].Packages) : cfgs[c].Packages[k].Name = p } }
        top == CHOOSE ij \in hits : \A o \in hits :
                  o[1] < ij[1] \/ (o[1] = ij[1] /\ o[2] <= ij[2])
    IN IF hits = {} THEN << >> ELSE cfgs[c].Packages[top[1]].Channels[top[2]].VersionRange
PackageRange(c, p) ==
    LET hits == { i \in 1..Len(cfgs[c].Packages) : cfgs[c].Packages[i].Name = p }
    IN IF hits = {} THEN << >>
       ELSE cfgs[c].Packages[CHOOSE i \in hits : \A k \in hits : k <= i].VersionRange

\* the versions of the bundles of the package p in the catalog of the call c
VersionsOf(c, p) ==
    [n \in { b.Name : b \in { x \in Range(ArgBefore(c).Bundles) : x.Package = p } } |->
        VersionIn(ArgBefore(c), p, n)]

\* the entries a channel of the entries es keeps under the range r, in order
RangeKept(c, p, es, r) ==
    LET h == CHOOSE i \in HeadPositions(es) : TRUE
        names == filterByVersionRange(es, es[h].Name, r, VersionsOf(c, p))
    IN SelectSeq(es, LAMBDA e : e.Name \in names)

\* C22: of a channel of a successful call with full=false whose package filter
\* selects no bundles: when its channel filter has a version range the channel is
\* filtered by that range; otherwise, when its package filter has one, by the range
\* of the package; and a listed channel without any range is reduced to its head.
\* Each channel of a package is treated by its own range.
C22_RangeDispatch ==
    \A c \in 1..2 : (Success(rets[c]) /\ ~cfgs[c].Full /\ cfgs[c].Packages # << >>) =>
        \A i \in 1..Len(rets[c].cat.Channels) :
            LET ch == rets[c].cat.Channels[i]
                p == ch.Package
                chRange == ListedRange(c, p, ch.Name)
                pkgRange == PackageRange(c, p)
            IN SelectedNames(c, p) = {} =>
                  \E j \in ChannelsNamed(ArgBefore(c), p, ch.Name) :
                      LET es == ArgBefore(c).Channels[j].Entries
                      IN /\ Cardinality(HeadPositions(es)) = 1
                         /\ IF chRange # << >> THEN ch.Entries = RangeKept(c, p, es, chRange)
                            ELSE IF pkgRange # << >> THEN ch.Entries = RangeKept(c, p, es, pkgRange)
                            ELSE \A h \in HeadPositions(es) : ch.Entries = << es[h] >>

\* one package with a range of its own on the channel c1, the range of the package
\* on the channel c2, and in a second configuration a channel c2 without any range:
\* c1 keeps b1 for the range 1..1 while c2 keeps b2 and b3 for the range 2..3
C22_Witness ==
    /\ Success(rets[1])
    /\ ListedRange(1, "p1", "c1") = << 1, 1 >>
    /\ ListedRange(1, "p1", "c2") = << >>
    /\ PackageRange(1, "p1") = << 2, 3 >>
    /\ Len(rets[1].cat.Channels) = 2
    /\ NamesIn(rets[1].cat.Channels[1].Entries) = {"b1", "b2"}
    /\ NamesIn(rets[1].cat.Channels[2].Entries) = {"b2", "b3"}
    /\ Len(input.Channels[2].Entries) = 3

\* the names of the entries es whose bundle of the package p has a version in the
\* range r, and the names among names that have a Bundle record of the package
InRangeNames(c, p, es, r) ==
    { n \in NamesIn(es) : LET v == VersionIn(ArgBefore(c), p, n) IN r[1] <= v /\ v <= r[2] }
WithBundle(c, p, names) ==
    { n \in names : \E b \in Range(ArgBefore(c).Bundles) : b.Package = p /\ b.Name = n }

\* C23: of a channel a successful call filtered by a version range every entry whose
\* bundle version satisfies the range is retained; the head of the channel is not
\* retained when its version lies above the upper bound of the range; and the
\* bundles kept for the channel are exactly those whose version satisfies the range
C23_RangeKeepsExactlyTheRange ==
    \A c \in 1..2 : Success(rets[c]) =>
        \A i \in 1..Len(rets[c].cat.Channels) :
            LET ch == rets[c].cat.Channels[i]
                r == AppliedRange(c, ch.Package, ch.Name)
            IN Len(r) = 2 =>
                  \A j \in ChannelsNamed(ArgBefore(c), ch.Package, ch.Name) :
                      LET es == ArgBefore(c).Channels[j].Entries
                          inRange == InRangeNames(c, ch.Package, es, r)
                      IN /\ inRange \subseteq NamesIn(ch.Entries)
                         /\ \A h \in HeadPositions(es) :
                               VersionIn(ArgBefore(c), ch.Package, es[h].Name) > r[2]
                                   => es[h].Name \notin NamesIn(ch.Entries)
                         /\ WithBundle(c, ch.Package, NamesIn(ch.Entries)) = inRange

\* the channel of the output of the call c at i is reduced to its head: full=false,
\* no selection for its package and no version range for the channel
HeadOnly(c, i) ==
    LET ch == rets[c].cat.Channels[i]
    IN /\ ~cfgs[c].Full
       /\ SelectedNames(c, ch.Package) = {}
       /\ ListedRange(c, ch.Package, ch.Name) = << >>
       /\ PackageRange(c, ch.Package) = << >>

\* C24: a channel reduced to its head holds the head entry exactly as the input has
\* it, with what it replaces and skips, and nothing else; its name and its package
\* are unchanged
C24_HeadEntryVerbatim ==
    \A c \in 1..2 : Success(rets[c]) =>
        \A i \in 1..Len(rets[c].cat.Channels) :
            HeadOnly(c, i) =>
                LET ch == rets[c].cat.Channels[i]
                IN \E j \in ChannelsNamed(ArgBefore(c), ch.Package, ch.Name) :
                      LET before == ArgBefore(c).Channels[j]
                      IN /\ Cardinality(HeadPositions(before.Entries)) = 1
                         /\ \A h \in HeadPositions(before.Entries) :
                               ch = [before EXCEPT !.Entries = << before.Entries[h] >>]

\* the channel [b1 replaces b2 skips b0; b2] listed without range: the output holds
\* the one entry b1 that still replaces b2, which is gone, and skips b0
C24_Witness ==
    /\ Success(rets[1])
    /\ ListedChannels(1, "p1") = {"c1"}
    /\ Len(rets[1].cat.Channels) = 1
    /\ HeadOnly(1, 1)
    /\ input.Channels[1].Entries = << Entry("b1", "b2", {"b0"}), Entry("b2", "", {}) >>
    /\ rets[1].cat.Channels[1].Entries = << Entry("b1", "b2", {"b0"}) >>

\* C25: whenever FilterCatalog returns an error the catalog it returns is nil,
\* whatever the error: default channel, mode conflict, channel integrity, range
\* evaluation, or a bundle version or package property that fails to parse while
\* the index is built
C25_ErrorMeansNilCatalog ==
    \A c \in 1..2 : (rets[c].done /\ rets[c].err # NoErr) => rets[c].out = 0

\* C26: after a FilterCatalog call that fails, the catalog the caller passed holds
\* what it held before the call (so a retry on the same catalog object starts from
\* the pristine catalog): the entries of the channels processed before the failing
\* one and the deprecation entries are untouched
C26_FailureLeavesInputUntouched ==
    (rets[1].done /\ rets[1].err # NoErr) => rets[1].arg = input

\* the error of the heads of the entries es, NoErr for a single head
HeadError(es) ==
    IF HeadPositions(es) = {} THEN "no channel heads found"
    ELSE IF Cardinality(HeadPositions(es)) > 1 THEN "multiple channel heads"
    ELSE ""

\* what is wrong with the j-th channel of the catalog of the call c, read from the
\* catalog and the configuration: the error its examination raises, NoErr for none
ChannelProblem(c, j) ==
    LET ch == ArgBefore(c).Channels[j]
        r == AppliedRange(c, ch.Package, ch.Name)
        sel == SelectedNames(c, ch.Package)
    IN IF cfgs[c].Full /\ r # << >>
       THEN Err("Full: true cannot be mixed with versionRange", "", "")
       ELSE IF cfgs[c].Full /\ sel # {}
       THEN Err("Full: true cannot be mixed with filtering by bundle selection", "", "")
       ELSE IF sel # {} /\ r # << >>
       THEN Err("filtering by versionRange cannot be mixed with filtering by bundle selection", "", "")
       ELSE IF sel # {}
       THEN IF HeadError(SelectedEntries(c, j)) = "" THEN NoErr
            ELSE Err("filtering on the selected bundles leads to invalidating channel",
                     HeadError(SelectedEntries(c, j)), ch.Name)
       ELSE IF cfgs[c].Full THEN NoErr
       ELSE IF r # << >>
       THEN IF Len(r) # 2 THEN Err("error parsing version range", "", "")
            ELSE IF HeadError(ch.Entries) # "" THEN Err(HeadError(ch.Entries), "", "")
            ELSE IF InRangeNames(c, ch.Package, ch.Entries, r) = {}
            THEN Err("has version range that results in an empty channel", "", ch.Name)
            ELSE NoErr
       ELSE IF HeadError(ch.Entries) = "" THEN NoErr
            ELSE Err("unable to filter head of channel", HeadError(ch.Entries), ch.Name)

\* the kept channels of the call c with a problem, and the packages with a default
\* channel problem
FailingChannels(c) ==
    { j \in 1..Len(ArgBefore(c).Channels) : KeptChannel(c, j) /\ ChannelProblem(c, j) # NoErr }
DefaultProblems(c) ==
    { i \in 1..Len(ArgBefore(c).Packages) : OverrideLost(c, i) \/ OriginalLost(c, i) }

\* C27: the default channels of all packages are reconciled after pruning and
\* before any channel is examined: a call with a default channel problem, which no
\* earlier package without a default channel to keep ends first, fails with
\* 'invalid default channel configuration for package', whatever mode conflict,
\* channel integrity or range problem its channels have; and of the channels the
\* first in input order that has a problem determines the error
C27_DefaultChannelsBeforeChannels ==
    \A c \in 1..2 : ReachesPackages(c) =>
        /\ (\E i \in DefaultProblems(c) : FirstToFail(c, i)) =>
              /\ rets[c].out = 0
              /\ rets[c].err.msg = "invalid default channel configuration for package"
        /\ ( /\ FirstToFail(c, Len(ArgBefore(c).Packages) + 1)
             /\ FailingChannels(c) # {} ) =>
              /\ rets[c].out = 0
              /\ \E j \in FailingChannels(c) :
                    /\ \A k \in FailingChannels(c) : j <= k
                    /\ rets[c].err = ChannelProblem(c, j)

\* a call with a lost default channel and a channel whose range leaves it empty
C27_Witness ==
    /\ ReachesPackages(1)
    /\ DefaultProblems(1) # {}
    /\ FailingChannels(1) # {}
    /\ ChannelProblem(1, 2).msg = "has version range that results in an empty channel"
    /\ rets[1].err.msg = "invalid default channel configuration for package"

\* C27 as first stated: every call with a default channel problem and a channel
\* problem fails with 'invalid default channel configuration for package'
C27_DefaultProblemAlwaysWins ==
    \A c \in 1..2 :
        (ReachesPackages(c) /\ DefaultProblems(c) # {} /\ FailingChannels(c) # {}) =>
            rets[c].err.msg = "invalid default channel configuration for package"

\* the sequence xs is what is left of ys after removing some of its members
RECURSIVE IsSubsequence(_, _)
IsSubsequence(xs, ys) ==
    IF xs = << >> THEN TRUE
    ELSE IF ys = << >> THEN FALSE
    ELSE \/ Head(xs) = Head(ys) /\ IsSubsequence(Tail(xs), Tail(ys))
         \/ IsSubsequence(xs, Tail(ys))

\* the channels xs are channels of ys in the order of ys, each with entries of its
\* channel in the order of that channel
RECURSIVE ChannelsInOrder(_, _)
ChannelsInOrder(xs, ys) ==
    IF xs = << >> THEN TRUE
    ELSE IF ys = << >> THEN FALSE
    ELSE \/ /\ Head(xs).Package = Head(ys).Package
            /\ Head(xs).Name = Head(ys).Name
            /\ IsSubsequence(Head(xs).Entries, Head(ys).Entries)
            /\ ChannelsInOrder(Tail(xs), Tail(ys))
         \/ ChannelsInOrder(xs, Tail(ys))

\* the names of the packages ps and the packages of the deprecations ds, in order
PackageNameSeq(ps) == Tabulate(LAMBDA i : ps[i].Name, Len(ps))
DeprecatedSeq(ds) == Tabulate(LAMBDA i : ds[i].Package, Len(ds))

\* packages, channels, entries and deprecations of the output of the call c are in
\* the order of its input
InputOrderKept(c) ==
    LET in == ArgBefore(c)
        out == rets[c].cat
    IN /\ IsSubsequence(PackageNameSeq(out.Packages), PackageNameSeq(in.Packages))
       /\ ChannelsInOrder(out.Channels, in.Channels)
       /\ IsSubsequence(DeprecatedSeq(out.Deprecations), DeprecatedSeq(in.Deprecations))
       /\ \A i \in 1..Len(out.Deprecations) :
             \E j \in 1..Len(in.Deprecations) :
                /\ in.Deprecations[j].Package = out.Deprecations[i].Package
                /\ IsSubsequence(out.Deprecations[i].Entries, in.Deprecations[j].Entries)

\* C28: in every successful output, packages, channels and the entries within each
\* channel appear in the same relative order as in the input, deprecations keep
\* input order, and the bundle list is sorted ascending by (package, name) without
\* a duplicate (package, name), whatever the mode
C28_OutputOrder ==
    \A c \in 1..2 : Success(rets[c]) =>
        /\ InputOrderKept(c)
        /\ SortedByPackageAndName(rets[c].cat.Bundles)

\* the entry of the channel ch that is its head, when it has exactly one
HeadEntryOf(ch) == ch.Entries[CHOOSE h \in HeadPositions(ch.Entries) : TRUE]

\* the channels of the package p in the catalog cat, in order
ChannelSeqOfPkg(cat, p) == SelectSeq(cat.Channels, LAMBDA ch : ch.Package = p)

C30_NilCatalog ==
    (fbc = 0 /\ rets[1].done) =>
        /\ rets[1].out = 0
        /\ rets[1].err = NoErr
        /\ mem = EmptyMem

\* a call without catalog returned although its configuration mixes full=true, a
\* bundle selection and a version range, and overrides the default channel
C30_Witness ==
    /\ fbc = 0
    /\ rets[1].done
    /\ ModeConflict(1)
    /\ cfgs[1].Full
    /\ cfgs[1].Packages[1].DefaultChannel # ""
    /\ rets[1].err = NoErr

====
